---- MODULE Spec2Model ----
(***************************************************************************)
(* POST /generate of server.js: the generation - validation - repair       *)
(* pipeline of the visit-note generator, with the rotation selector, the   *)
(* section parser, the format validator, the topic detector, the           *)
(* constraint compiler and the content validator it calls.                 *)
(*                                                                         *)
(* A JavaScript string is modelled as a sequence of one-character strings, *)
(* so that the regular expressions and the substring tests of the source   *)
(* are computed character by character.                                    *)
(***************************************************************************)
EXTENDS Integers, Sequences, FiniteSets, TLC

(***************************************************************************)
(* Strings                                                                 *)
(***************************************************************************)

\* A string literal of the source as a sequence of characters.
Str(s) == SubSeq([i \in 1..Len(s) |-> SubSeq(s, i, i)], 1, Len(s))

\* The character at position i, or "" outside the string.
At(t, i) == IF i >= 1 /\ i <= Len(t) THEN t[i] ELSE ""

\* Characters of the model that have no plain-text escape.
ArrowUp == "UP"
ArrowDown == "DOWN"
Bullet == "BULLET"

\* \s of a JavaScript regular expression, and the characters trim() strips.
IsSpace(c) == c \in {" ", "\t", "\n", "\r"}

\* \d and \w of a JavaScript regular expression.
IsDigit(c) == c \in {"0", "1", "2", "3", "4", "5", "6", "7", "8", "9"}

\* The upper-case letters with their lower-case forms, and the converse.
LowerOf ==
  ("A" :> "a") @@ ("B" :> "b") @@ ("C" :> "c") @@ ("D" :> "d") @@ ("E" :> "e") @@ ("F" :> "f") @@
  ("G" :> "g") @@ ("H" :> "h") @@ ("I" :> "i") @@ ("J" :> "j") @@ ("K" :> "k") @@ ("L" :> "l") @@
  ("M" :> "m") @@ ("N" :> "n") @@ ("O" :> "o") @@ ("P" :> "p") @@ ("Q" :> "q") @@ ("R" :> "r") @@
  ("S" :> "s") @@ ("T" :> "t") @@ ("U" :> "u") @@ ("V" :> "v") @@ ("W" :> "w") @@ ("X" :> "x") @@
  ("Y" :> "y") @@ ("Z" :> "z")

UpperOf ==
  ("a" :> "A") @@ ("b" :> "B") @@ ("c" :> "C") @@ ("d" :> "D") @@ ("e" :> "E") @@ ("f" :> "F") @@
  ("g" :> "G") @@ ("h" :> "H") @@ ("i" :> "I") @@ ("j" :> "J") @@ ("k" :> "K") @@ ("l" :> "L") @@
  ("m" :> "M") @@ ("n" :> "N") @@ ("o" :> "O") @@ ("p" :> "P") @@ ("q" :> "Q") @@ ("r" :> "R") @@
  ("s" :> "S") @@ ("t" :> "T") @@ ("u" :> "U") @@ ("v" :> "V") @@ ("w" :> "W") @@ ("x" :> "X") @@
  ("y" :> "Y") @@ ("z" :> "Z")

IsUpper(c) == c \in DOMAIN LowerOf

IsLower(c) == c \in DOMAIN UpperOf

IsWordChar(c) == IsUpper(c) \/ IsLower(c) \/ IsDigit(c) \/ c = "_"

LowerCh(c) == IF IsUpper(c) THEN LowerOf[c] ELSE c

UpperCh(c) == IF IsLower(c) THEN UpperOf[c] ELSE c

\* String.prototype.toLowerCase / toUpperCase
toLowerCase(t) == SubSeq([i \in 1..Len(t) |-> LowerCh(t[i])], 1, Len(t))

toUpperCase(t) == SubSeq([i \in 1..Len(t) |-> UpperCh(t[i])], 1, Len(t))

\* String.prototype.trim
trim(t) ==
  IF \A i \in 1..Len(t) : IsSpace(t[i]) THEN <<>>
  ELSE LET first == CHOOSE i \in 1..Len(t) :
                       ~IsSpace(t[i]) /\ \A k \in 1..(i - 1) : IsSpace(t[k])
           back == CHOOSE j \in 1..Len(t) :
                       ~IsSpace(t[Len(t) + 1 - j]) /\ \A k \in 1..(j - 1) : IsSpace(t[Len(t) + 1 - k])
       IN  SubSeq(t, first, Len(t) + 1 - back)

\* n occurs in t at position i (case-sensitive).
MatchAt(t, i, n) ==
  /\ i >= 1
  /\ i + Len(n) - 1 <= Len(t)
  /\ \A j \in 1..Len(n) : t[i + j - 1] = n[j]

\* String.prototype.includes / startsWith
includes(t, n) == \E i \in 1..(Len(t) - Len(n) + 1) : MatchAt(t, i, n)

startsWith(t, n) == MatchAt(t, 1, n)

\* The concatenation of the pieces lo to hi: the result of a global replace
\* that keeps, rewrites or deletes each character.
RECURSIVE Gather(_, _, _)
Gather(pieces, lo, hi) ==
  IF lo > hi THEN <<>>
  ELSE IF lo = hi THEN pieces[lo]
  ELSE Gather(pieces, lo, (lo + hi) \div 2) \o Gather(pieces, (lo + hi) \div 2 + 1, hi)

\* .replace(/\r\n/g, "\n")
EmitCrLf(t, i) == IF t[i] = "\r" /\ At(t, i + 1) = "\n" THEN <<>> ELSE <<t[i]>>

replaceCrLf(t) == Gather([i \in 1..Len(t) |-> EmitCrLf(t, i)], 1, Len(t))

\* .replace(/[ \t]+/g, " ")
EmitBlanks(t, i) ==
  IF t[i] \in {" ", "\t"}
  THEN IF At(t, i - 1) \in {" ", "\t"} THEN <<>> ELSE <<" ">>
  ELSE <<t[i]>>

replaceBlanks(t) == Gather([i \in 1..Len(t) |-> EmitBlanks(t, i)], 1, Len(t))

\* .replace(/\n{3,}/g, "\n\n")
EmitNewlines(t, i) ==
  IF t[i] = "\n" /\ At(t, i - 1) = "\n" /\ At(t, i - 2) = "\n" THEN <<>> ELSE <<t[i]>>

replaceNewlines(t) == Gather([i \in 1..Len(t) |-> EmitNewlines(t, i)], 1, Len(t))

(***************************************************************************)
(* Small utilities                                                         *)
(***************************************************************************)

normalizeSpaces(s) == trim(replaceNewlines(replaceBlanks(replaceCrLf(s))))

normalizeNewlines(text) == trim(replaceNewlines(replaceCrLf(text)))

isSingleLine(str) == ~includes(str, <<"\n">>)

\* [.!?], the sentence-terminal punctuation of the split expression.
IsTerminal(c) == c \in {".", "!", "?"}

\* The matches of /(?<=[.!?])\s+/ in t: each starts at a white-space
\* character that follows a terminal mark and runs to the end of the
\* white space.
SepStarts(t) == {i \in 2..Len(t) : IsSpace(t[i]) /\ IsTerminal(t[i - 1])}

\* The last position of the run of white space that starts at position i.
SpaceRunEnd(t, i) ==
  CHOOSE j \in i..Len(t) : (\A k \in i..j : IsSpace(t[k])) /\ ~IsSpace(At(t, j + 1))

\* The k-th smallest element of a set of integers.
Nth(S, k) == CHOOSE x \in S : Cardinality({y \in S : y < x}) = k - 1

\* t.split(/(?<=[.!?])\s+/).filter(Boolean)
splitSentences(t) ==
  LET S == SepStarts(t)
      n == Cardinality(S)
      from(k) == IF k = 1 THEN 1 ELSE SpaceRunEnd(t, Nth(S, k - 1)) + 1
      to(k) == IF k = n + 1 THEN Len(t) ELSE Nth(S, k) - 1
      parts == [k \in 1..(n + 1) |-> SubSeq(t, from(k), to(k))]
  IN  SelectSeq(parts, LAMBDA p : p # <<>>)

getLastSentence(text) ==
  LET t == trim(text)
      parts == splitSentences(t)
  IN  IF Len(parts) > 0 THEN trim(parts[Len(parts)]) ELSE <<>>

includesExactClosingPhrase(lastSentence, discipline) ==
  LET needle == IF discipline = "OT"
                THEN Str("Continued skilled OT remains indicated")
                ELSE Str("Continued skilled PT remains indicated")
  IN  includes(lastSentence, needle)

\* \b at the boundary before position i of t.
WordBoundary(t, i) == IsWordChar(At(t, i - 1)) # IsWordChar(At(t, i))

ThirdPersonRefs ==
  <<Str("the patient"), Str("they"), Str("their"), Str("them"), Str("theirs"), Str("themselves")>>

\* /\b(the patient|they|their|them|theirs|themselves)\b/i.test(t)
hasBannedThirdPersonRef(text) ==
  LET t == toLowerCase(text)
  IN  \E i \in 1..Len(t) : \E w \in 1..Len(ThirdPersonRefs) :
         /\ MatchAt(t, i, ThirdPersonRefs[w])
         /\ WordBoundary(t, i)
         /\ WordBoundary(t, i + Len(ThirdPersonRefs[w]))

\* /[<up arrow><down arrow>]/.test(text)
containsArrows(text) == \E i \in 1..Len(text) : text[i] \in {ArrowUp, ArrowDown}

\* ^ of a regular expression with the m flag: the start of the text or the
\* position after a line terminator.
LineStart(t, p) == p = 1 \/ At(t, p - 1) \in {"\n", "\r"}

\* ^\s* ends right before position q.
AfterLineIndent(t, q) ==
  \E p \in 1..q : LineStart(t, p) /\ \A k \in p..(q - 1) : IsSpace(t[k])

\* /^\s*[-*<bullet>]\s+/m.test(t) || /^\s*\d+\.\s+/m.test(t)
hasBulletsOrNumbering(text) ==
  \/ \E q \in 1..Len(text) :
        /\ text[q] \in {"-", "*", Bullet}
        /\ IsSpace(At(text, q + 1))
        /\ AfterLineIndent(text, q)
  \/ \E q \in 1..Len(text) :
        /\ IsDigit(text[q])
        /\ AfterLineIndent(text, q)
        /\ \E r \in q..Len(text) :
              /\ \A k \in q..r : IsDigit(text[k])
              /\ At(text, r + 1) = "."
              /\ IsSpace(At(text, r + 2))

(***************************************************************************)
(* Patient-based rotation                                                  *)
(***************************************************************************)

\* `${patientKey}::${arr.length}`
rotationKey(patientKey, arr) == patientKey \o Str("::") \o Str(ToString(Len(arr)))

\* What Math.floor(Math.random() * n) may return, within the bound.
RandBound == 1

RandomIndices(n) == {i \in 0..(n - 1) : i < RandBound}

\* A variant of pickIndices that stores the index it found again.
pickIndicesWithoutAdvance(memory, key, arr) ==
  IF key \notin DOMAIN memory
  THEN RandomIndices(Len(arr))
  ELSE {memory[key] % Len(arr)}

\* A variant of pickIndices that rotates towards the start of the pool.
pickIndicesBackwards(memory, key, arr) ==
  IF key \notin DOMAIN memory
  THEN RandomIndices(Len(arr))
  ELSE {(memory[key] + Len(arr) - 1) % Len(arr)}

\* A variant of pickIndices that advances a stored index by two.
pickIndicesByTwo(memory, key, arr) ==
  IF key \notin DOMAIN memory
  THEN RandomIndices(Len(arr))
  ELSE {(memory[key] + 2) % Len(arr)}

\* The indices pickForPatient may store for the key: a random index when
\* the map has none, the stored index advanced by one otherwise.
pickIndices(memory, key, arr) ==
  IF key \notin DOMAIN memory
  THEN RandomIndices(Len(arr))
  ELSE {(memory[key] + 1) % Len(arr)}

\* A variant of pickForPatient that forgets patientMemory.set(key, idx).
pickForPatientWithoutSet(memory, patientKey, arr) ==
  { [memory |-> memory, value |-> arr[idx + 1]] :
    idx \in pickIndices(memory, rotationKey(patientKey, arr), arr) }

\* The outcomes of pickForPatient: the map after patientMemory.set(key, idx)
\* and the element arr[idx] it returns.
pickForPatient(memory, patientKey, arr) ==
  { [ memory |-> [k \in DOMAIN memory \cup {rotationKey(patientKey, arr)} |->
                    IF k = rotationKey(patientKey, arr) THEN idx ELSE memory[k]],
      value |-> arr[idx + 1] ] :
    idx \in pickIndices(memory, rotationKey(patientKey, arr), arr) }

SUMMARY_INTRO_PREFIXES ==
  << Str("Today, pt "),
     Str("Overall, pt "),
     Str("Pt demonstrates "),
     Str("Pt displays "),
     Str("Pt shows "),
     Str("Pt completes"),
     Str("Therapy tx focuses on"),
     Str("During today's tx, pt "),
     Str("Pt continues "),
     Str("Pt presents "),
     Str("Assessment displays"),
     Str("Tx focused on "),
     Str("Functional mobility indicates pt ") >>

\* A variant of SUMMARY_CLOSERS whose third sentence is worded without
\* "skilled".
SUMMARY_CLOSERS_REWORDED ==
  << Str("Continued skilled PT remains indicated to progress POC and support functional carryover to ADLs."),
     Str("Continued skilled PT remains indicated to address impairments and promote safe mobility to meet goals."),
     Str("Continued PT remains indicated to improve strength, ROM, and functional tolerance for PLOF."),
     Str("Continued skilled PT remains indicated to reduce fall/injury risk and improve safe functional independence."),
     Str("Continued skilled PT remains indicated to advance therapeutic progression and optimize functional outcomes.") >>

SUMMARY_CLOSERS ==
  << Str("Continued skilled PT remains indicated to progress POC and support functional carryover to ADLs."),
     Str("Continued skilled PT remains indicated to address impairments and promote safe mobility to meet goals."),
     Str("Continued skilled PT remains indicated to improve strength, ROM, and functional tolerance for PLOF."),
     Str("Continued skilled PT remains indicated to reduce fall/injury risk and improve safe functional independence."),
     Str("Continued skilled PT remains indicated to advance therapeutic progression and optimize functional outcomes.") >>

OT_SUMMARY_CLOSERS ==
  << Str("Continued skilled OT remains indicated to progress POC and support functional carryover to ADLs."),
     Str("Continued skilled OT remains indicated to address impairments and promote safe performance of ADLs/IADLs to meet goals."),
     Str("Continued skilled OT remains indicated to improve UE function, coordination, and task tolerance for ADLs and PLOF."),
     Str("Continued skilled OT remains indicated to reduce fall/injury risk and improve safe functional independence."),
     Str("Continued skilled OT remains indicated to advance therapeutic progression and optimize functional outcomes.") >>

POC_OPENERS ==
  << Str("Continue to focus on"),
     Str("Plan to progress"),
     Str("Continue skilled PT emphasizing"),
     Str("Continue with a focus on"),
     Str("Proceed with ongoing skilled PT targeting"),
     Str("Maintain POC with emphasis on"),
     Str("Continue intervention focus on"),
     Str("Advance POC with continued emphasis on") >>

OT_POC_OPENERS ==
  << Str("Continue to focus on"),
     Str("Plan to progress"),
     Str("Continue skilled OT emphasizing"),
     Str("Continue with a focus on"),
     Str("Proceed with ongoing skilled OT targeting"),
     Str("Maintain POC with emphasis on"),
     Str("Continue intervention focus on"),
     Str("Advance POC with continued emphasis on") >>

\* A variant of pickIntroPrefix that makes a further pick before its own.
pickIntroPrefixAfterFourthPick(memory, patientLabel) ==
  UNION { pickForPatient(fourth.memory, patientLabel \o Str("::intro"), SUMMARY_INTRO_PREFIXES) :
          fourth \in pickForPatient(memory, patientLabel \o Str("::subj"), POC_OPENERS) }

pickIntroPrefix(memory, patientLabel) ==
  pickForPatient(memory, patientLabel \o Str("::intro"), SUMMARY_INTRO_PREFIXES)

pickCloserForDiscipline(memory, patientLabel, discipline) ==
  IF discipline = "OT"
  THEN pickForPatient(memory, patientLabel \o Str("::closeOT"), OT_SUMMARY_CLOSERS)
  ELSE pickForPatient(memory, patientLabel \o Str("::closePT"), SUMMARY_CLOSERS)

\* A variant of pickPocOpenerForDiscipline with one patient key for the
\* two pools, told apart by their length only.
pickPocOpenerForDisciplineSharedKey(memory, patientLabel, discipline) ==
  IF discipline = "OT"
  THEN pickForPatient(memory, patientLabel \o Str("::poc"), OT_POC_OPENERS)
  ELSE pickForPatient(memory, patientLabel \o Str("::poc"), POC_OPENERS)

pickPocOpenerForDiscipline(memory, patientLabel, discipline) ==
  IF discipline = "OT"
  THEN pickForPatient(memory, patientLabel \o Str("::pocOT"), OT_POC_OPENERS)
  ELSE pickForPatient(memory, patientLabel \o Str("::pocPT"), POC_OPENERS)

(***************************************************************************)
(* Parsing and counting helpers                                            *)
(***************************************************************************)

\* The result of a failed parse (null).
Null == [isNull |-> TRUE]

\* The positions at which \s*\n, started at position p, can end.
HeaderEnds(t, p) ==
  {a \in p..Len(t) : t[a] = "\n" /\ \A k \in p..(a - 1) : IsSpace(t[k])}

Min(S) == CHOOSE x \in S : \A y \in S : x <= y

Max(S) == CHOOSE x \in S : \A y \in S : x >= y

\* The positions of t at which the text n occurs.
Occurrences(t, n) == {i \in 1..Len(t) : MatchAt(t, i, n)}

\* A variant of splitSections whose first group is greedy: ([\s\S]*) takes
\* the longest text for which the rest of the expression matches.
splitSectionsGreedy(text) ==
  LET Match(t, sumAt, pocAt) ==
        LET E(d) == HeaderEnds(t, d + 5)
            D(c) == {d \in pocAt : d > c /\ E(d) # {}}
            C(b) == {c \in HeaderEnds(t, b + 9) : D(c) # {}}
            B(a) == {b \in sumAt : b > a /\ C(b) # {}}
            A == IF startsWith(t, Str("Subjective"))
                 THEN {a \in HeaderEnds(t, 11) : B(a) # {}}
                 ELSE {}
            Groups(subjective, summary, poc) ==
              IF subjective = <<>> \/ summary = <<>> \/ poc = <<>> THEN Null
              ELSE [subjective |-> subjective, summary |-> summary, poc |-> poc]
            At5(a, b, c, d, e) ==
              Groups(trim(SubSeq(t, a + 1, b - 1)), trim(SubSeq(t, c + 1, d - 1)),
                     trim(SubSeq(t, e + 1, Len(t))))
            At4(a, b, c, d) == At5(a, b, c, d, Max(E(d)))
            At3(a, b, c) == At4(a, b, c, Min(D(c)))
            At2(a, b) == At3(a, b, Max(C(b)))
            At1(a) == At2(a, Max(B(a)))
        IN  IF A = {} THEN Null ELSE At1(Max(A))
      Trimmed(t) == Match(t, Occurrences(t, Str("\n\nSummary")), Occurrences(t, Str("\n\nPOC")))
  IN  Trimmed(trim(text))

\* /^Subjective\s*\n([\s\S]*?)\n\nSummary\s*\n([\s\S]*?)\n\nPOC\s*\n([\s\S]*?)$/
\* matched with the priorities of a backtracking matcher: each \s* takes
\* the longest run, each lazy group the shortest text, for which the rest
\* of the expression still matches. a, c and e are the line ends that
\* close the three headers, b and d the starts of \n\nSummary and \n\nPOC.
splitSections(text) ==
  LET Match(t, sumAt, pocAt) ==
        LET E(d) == HeaderEnds(t, d + 5)
            D(c) == {d \in pocAt : d > c /\ E(d) # {}}
            C(b) == {c \in HeaderEnds(t, b + 9) : D(c) # {}}
            B(a) == {b \in sumAt : b > a /\ C(b) # {}}
            A == IF startsWith(t, Str("Subjective"))
                 THEN {a \in HeaderEnds(t, 11) : B(a) # {}}
                 ELSE {}
            Groups(subjective, summary, poc) ==
              IF subjective = <<>> \/ summary = <<>> \/ poc = <<>> THEN Null
              ELSE [subjective |-> subjective, summary |-> summary, poc |-> poc]
            At5(a, b, c, d, e) ==
              Groups(trim(SubSeq(t, a + 1, b - 1)), trim(SubSeq(t, c + 1, d - 1)),
                     trim(SubSeq(t, e + 1, Len(t))))
            At4(a, b, c, d) == At5(a, b, c, d, Max(E(d)))
            At3(a, b, c) == At4(a, b, c, Min(D(c)))
            At2(a, b) == At3(a, b, Max(C(b)))
            At1(a) == At2(a, Min(B(a)))
        IN  IF A = {} THEN Null ELSE At1(Max(A))
      Trimmed(t) == Match(t, Occurrences(t, Str("\n\nSummary")), Occurrences(t, Str("\n\nPOC")))
  IN  Trimmed(trim(text))

countSentences(text) ==
  LET t == trim(text)
  IN  IF t = <<>> THEN 0 ELSE Len(splitSentences(t))

BannedGenericStarts ==
  << Str("pt demonstrates good engagement"),
     Str("pt tolerated treatment well"),
     Str("rom showed slight improvement"),
     Str("pain levels remained manageable") >>

hasBannedGenericSummaryStart(summary) ==
  LET s == toLowerCase(trim(summary))
  IN  \E k \in 1..Len(BannedGenericStarts) : startsWith(s, BannedGenericStarts[k])

(***************************************************************************)
(* Visit generator prompts and validation                                  *)
(***************************************************************************)

SUBJECTIVE_STARTERS ==
  << Str("Pt reports"),
     Str("Pt states"),
     Str("Pt notes"),
     Str("Pt c/o"),
     Str("Pt c/c of"),
     Str("Pt verbalizes"),
     Str("Pt expresses"),
     Str("Pt denies"),
     Str("Pt agrees"),
     Str("Pt confirms") >>

\* Array.prototype.join
RECURSIVE join(_, _)
join(arr, sep) ==
  IF Len(arr) = 0 THEN <<>>
  ELSE IF Len(arr) = 1 THEN arr[1]
  ELSE arr[1] \o sep \o join(Tail(arr), sep)

\* The position after \s+ followed by the word w, when they occur at
\* position j of t; 0 when they do not.
AfterSpacesAndWord(t, j, w) ==
  IF ~IsSpace(At(t, j)) THEN 0
  ELSE LET e == SpaceRunEnd(t, j)
       IN  IF MatchAt(t, e + 1, w) THEN e + 1 + Len(w) ELSE 0

\* /tolerates?\s+tx\s+well/i.test(subjective)
toleratesTxWell(subjective) ==
  LET t == toLowerCase(subjective)
      tail(j) == LET k == AfterSpacesAndWord(t, j, Str("tx"))
                 IN  k # 0 /\ AfterSpacesAndWord(t, k, Str("well")) # 0
  IN  \E i \in 1..Len(t) :
         /\ MatchAt(t, i, Str("tolerate"))
         /\ \/ tail(i + 8)
            \/ At(t, i + 8) = "s" /\ tail(i + 9)

\* The POC line both the repair prompt and the validator require.
expectedPocLine(pocOpener, discipline) ==
  IF discipline = "OT"
  THEN Str("OT POC: ") \o pocOpener \o
       Str(" TherAct, ADL training, functional training, UE function/coordination, safety/energy conservation, injury prevention to meet goals.")
  ELSE Str("PT POC: ") \o pocOpener \o
       Str(" TherEx, TherAct, MT, functional training, fall/safety, injury prevention to meet goals.")

Ok == [ok |-> TRUE]

Fail(reason) == [ok |-> FALSE, reason |-> reason]

\* A variant of validateGenerated that looks for bullets and numbering
\* before it looks for arrows.
validateGeneratedBulletsFirst(text, introPrefix, closerSentence, pocOpener, discipline) ==
  LET Rules(subjective, summary, poc) ==
        LET last == getLastSentence(summary)
            expectedPoc == expectedPocLine(pocOpener, discipline)
        IN  IF countSentences(subjective) # 1
              THEN Fail(Str("Subjective must be exactly 1 sentence."))
            ELSE IF ~(\E k \in 1..Len(SUBJECTIVE_STARTERS) : startsWith(subjective, SUBJECTIVE_STARTERS[k]))
              THEN Fail(Str("Subjective must start with an allowed starter."))
            ELSE IF toleratesTxWell(subjective)
              THEN Fail(Str("Subjective must not say \"tolerates tx well\"."))
            ELSE IF countSentences(summary) \notin 5..7
              THEN Fail(Str("Summary must be 5 to 7 sentences."))
            ELSE IF hasBulletsOrNumbering(summary)
              THEN Fail(Str("Summary must not contain bullets or numbering."))
            ELSE IF containsArrows(summary)
              THEN Fail(Str("Summary must not contain arrows (") \o <<ArrowUp, "/", ArrowDown>> \o Str(")."))
            ELSE IF hasBannedThirdPersonRef(summary)
              THEN Fail(Str("Summary must not contain \"The patient\" or third-person pronouns. Use \"Pt\" only."))
            ELSE IF hasBannedGenericSummaryStart(summary)
              THEN Fail(Str("Summary starts with a banned generic opener."))
            ELSE IF ~startsWith(summary, introPrefix)
              THEN Fail(Str("First Summary sentence must start with required intro prefix."))
            ELSE IF last # closerSentence
              THEN Fail(Str("Summary must end with exact required closing sentence."))
            ELSE IF ~includesExactClosingPhrase(last, discipline)
              THEN Fail(Str("Summary must end with required closing phrase."))
            ELSE IF ~isSingleLine(poc)
              THEN Fail(Str("POC must be one line."))
            ELSE IF poc # expectedPoc
              THEN Fail(Str("POC must match exact template.\nExpected: ") \o expectedPoc \o Str("\nGot: ") \o poc)
            ELSE Ok
      Parsed(sections) ==
        IF sections = Null
        THEN Fail(Str("Could not parse 3 sections (Subjective/Summary/POC) with required spacing."))
        ELSE Rules(sections.subjective, sections.summary, sections.poc)
  IN  Parsed(splitSections(text))

\* Lines 494-556: the rules in the order of the code; the first one that
\* fails gives the reason.
validateGenerated(text, introPrefix, closerSentence, pocOpener, discipline) ==
  LET Rules(subjective, summary, poc) ==
        LET last == getLastSentence(summary)
            expectedPoc == expectedPocLine(pocOpener, discipline)
        IN  IF countSentences(subjective) # 1
              THEN Fail(Str("Subjective must be exactly 1 sentence."))
            ELSE IF ~(\E k \in 1..Len(SUBJECTIVE_STARTERS) : startsWith(subjective, SUBJECTIVE_STARTERS[k]))
              THEN Fail(Str("Subjective must start with an allowed starter."))
            ELSE IF toleratesTxWell(subjective)
              THEN Fail(Str("Subjective must not say \"tolerates tx well\"."))
            ELSE IF countSentences(summary) \notin 5..7
              THEN Fail(Str("Summary must be 5 to 7 sentences."))
            ELSE IF containsArrows(summary)
              THEN Fail(Str("Summary must not contain arrows (") \o <<ArrowUp, "/", ArrowDown>> \o Str(")."))
            ELSE IF hasBulletsOrNumbering(summary)
              THEN Fail(Str("Summary must not contain bullets or numbering."))
            ELSE IF hasBannedThirdPersonRef(summary)
              THEN Fail(Str("Summary must not contain \"The patient\" or third-person pronouns. Use \"Pt\" only."))
            ELSE IF hasBannedGenericSummaryStart(summary)
              THEN Fail(Str("Summary starts with a banned generic opener."))
            ELSE IF ~startsWith(summary, introPrefix)
              THEN Fail(Str("First Summary sentence must start with required intro prefix."))
            ELSE IF last # closerSentence
              THEN Fail(Str("Summary must end with exact required closing sentence."))
            ELSE IF ~includesExactClosingPhrase(last, discipline)
              THEN Fail(Str("Summary must end with required closing phrase."))
            ELSE IF ~isSingleLine(poc)
              THEN Fail(Str("POC must be one line."))
            ELSE IF poc # expectedPoc
              THEN Fail(Str("POC must match exact template.\nExpected: ") \o expectedPoc \o Str("\nGot: ") \o poc)
            ELSE Ok
      Parsed(sections) ==
        IF sections = Null
        THEN Fail(Str("Could not parse 3 sections (Subjective/Summary/POC) with required spacing."))
        ELSE Rules(sections.subjective, sections.summary, sections.poc)
  IN  Parsed(splitSections(text))

\* The fixed text of the generation prompt, between its interpolations.
GeneratePromptText1 ==
  Str("\n") \o
  Str("Write a ")

GeneratePromptText2 ==
  Str(" visit note with EXACTLY 3 sections in this order:\n") \o
  Str("\n") \o
  Str("Subjective\n") \o
  Str("(one sentence)\n") \o
  Str("\n") \o
  Str("Summary\n") \o
  Str("(5 to 7 sentences)\n") \o
  Str("\n") \o
  Str("POC\n") \o
  Str("(one line)\n") \o
  Str("\n") \o
  Str("FORMAT (must follow exactly):\n") \o
  Str("- Output must contain ONLY these 3 section headers: Subjective, Summary, POC.\n") \o
  Str("- Each header is on its own line (no colon).\n") \o
  Str("- Exactly ONE blank line between sections.\n") \o
  Str("- No bullets or numbering anywhere.\n") \o
  Str("- Do not output any extra text before Subjective or after POC.\n") \o
  Str("\n") \o
  Str("SUBJECTIVE RULES:\n") \o
  Str("- Exactly ONE sentence.\n") \o
  Str("- Must be patient-reported only.\n") \o
  Str("- Must start with one of: ")

GeneratePromptText3 ==
  Str(".\n") \o
  Str("- Must NOT say \"tolerates tx well\" or include objective measures.\n") \o
  Str("\n") \o
  Str("SUMMARY RULES:\n") \o
  Str("- Exactly 5 to 7 sentences.\n") \o
  Str("- Do NOT write \"The patient\" or any third-person pronouns: they/their/them/theirs/themselves (case-insensitive).\n") \o
  Str("- Refer to the person only as \"Pt\" (never they/their).\n") \o
  Str("- No arrows (") \o
  <<ArrowUp>> \o
  Str(" ") \o
  <<ArrowDown>> \o
  Str(").\n") \o
  Str("- Use abbrev where appropriate.\n") \o
  Str("- Do NOT start the Summary with generic banned openers (e.g. \"Pt tolerated treatment well\").\n") \o
  Str("- FIRST Summary sentence MUST start EXACTLY with this prefix:\n") \o
  Str("  ")

GeneratePromptText4 ==
  Str("\n") \o
  Str("- LAST Summary sentence MUST be EXACTLY this sentence:\n") \o
  Str("  ")

GeneratePromptText5 ==
  Str("\n") \o
  Str("\n") \o
  Str("POC RULES:\n") \o
  Str("- POC must be ONE line only.\n") \o
  Str("- Must start with: \"")

GeneratePromptText6 ==
  Str("\"\n") \o
  Str("- Must use this exact opener immediately after header: \"")

GeneratePromptText7 ==
  Str("\"\n") \o
  Str("- Must include ALL required elements and end with \"to meet goals.\"\n") \o
  Str("- Required POC content:\n") \o
  Str("  ")

GeneratePromptText8 ==
  Str("\n") \o
  Str("\n") \o
  Str("No-hallucination:\n") \o
  Str("- Only use details explicitly present in user instruction; no new numbers/devices/vitals/diagnoses.\n") \o
  Str("\n") \o
  Str("User instruction:\n")

GeneratePromptText9 ==
  Str("\n") \o
  Str("\n") \o
  Str("Patient label:\n")

\* The template of buildGeneratePrompt; the final line break of the
\* template is removed by trim().
buildGeneratePrompt(patientLabel, userText, introPrefix, closerSentence, pocOpener, discipline) ==
  trim(GeneratePromptText1 \o Str(discipline) \o
       GeneratePromptText2 \o join(SUBJECTIVE_STARTERS, Str(", ")) \o
       GeneratePromptText3 \o introPrefix \o
       GeneratePromptText4 \o closerSentence \o
       GeneratePromptText5 \o (IF discipline = "OT" THEN Str("OT POC:") ELSE Str("PT POC:")) \o
       GeneratePromptText6 \o pocOpener \o
       GeneratePromptText7 \o
       (IF discipline = "OT"
        THEN Str("TherAct, ADL training, functional training, UE function/coordination, safety/energy conservation, injury prevention to meet goals.")
        ELSE Str("TherEx, TherAct, MT, functional training, fall/safety, injury prevention to meet goals.")) \o
       GeneratePromptText8 \o userText \o
       GeneratePromptText9 \o patientLabel \o
       Str("\n"))

\* The fixed text of the repair prompt, between its interpolations.
RepairPromptText1 ==
  Str("\n") \o
  Str("You must FIX the note to comply with ALL constraints. Do not add facts.\n") \o
  Str("\n") \o
  Str("Return ONLY the corrected note with EXACTLY 3 sections:\n") \o
  Str("Subjective\n") \o
  Str("Summary\n") \o
  Str("POC\n") \o
  Str("\n") \o
  Str("Constraints to enforce:\n") \o
  Str("- Subjective: ONE sentence, patient-reported only, must start with one of:\n") \o
  Str("  ")

RepairPromptText2 ==
  Str("\n") \o
  Str("- Summary: 5-7 sentences, no arrows, no bullets/numbering.\n") \o
  Str("- Summary: must NOT contain \"The patient\" or they/their/them/theirs/themselves. Use \"Pt\" only.\n") \o
  Str("- Summary first sentence must start with:\n") \o
  Str("  ")

RepairPromptText3 ==
  Str("\n") \o
  Str("- Summary last sentence MUST be exactly:\n") \o
  Str("  ")

RepairPromptText4 ==
  Str("\n")

RepairPromptText5 ==
  Str("\n") \o
  Str("\n") \o
  Str("- POC: ONE line, must be exactly:\n") \o
  Str("  ")

RepairPromptText6 ==
  Str("\n") \o
  Str("\n") \o
  Str("User instruction:\n")

RepairPromptText7 ==
  Str("\n") \o
  Str("\n") \o
  Str("Bad output:\n")

RepairPromptText8 ==
  Str("\n") \o
  Str("\n") \o
  Str("Now output the corrected note only.\n")

\* A variant that writes the EXTRA block whatever it is given.
extraConstraintsBlockAlways(extraSummaryConstraints) ==
  Str("- EXTRA Summary constraints:\n  ") \o extraSummaryConstraints \o Str("\n")

\* The EXTRA block of the repair prompt: present only when
\* extraSummaryConstraints is a non-empty string.
extraConstraintsBlock(extraSummaryConstraints) ==
  IF extraSummaryConstraints # <<>>
  THEN Str("- EXTRA Summary constraints:\n  ") \o extraSummaryConstraints \o Str("\n")
  ELSE <<>>

\* The template of buildRepairPrompt (extraSummaryConstraints defaults to "").
buildRepairPrompt(patientLabel, userText, badOutput, introPrefix, closerSentence, pocOpener, discipline, extraSummaryConstraints) ==
  trim(RepairPromptText1 \o join(SUBJECTIVE_STARTERS, Str(", ")) \o
       RepairPromptText2 \o introPrefix \o
       RepairPromptText3 \o closerSentence \o
       RepairPromptText4 \o extraConstraintsBlock(extraSummaryConstraints) \o
       RepairPromptText5 \o expectedPocLine(pocOpener, discipline) \o
       RepairPromptText6 \o userText \o
       RepairPromptText7 \o badOutput \o
       RepairPromptText8)

(***************************************************************************)
(* PT visit summary: topic detection and muscle enforcement                *)
(***************************************************************************)

\* A variant that looks for the needles at the start of the haystack only.
includesAnyAtStart(haystack, needles) ==
  LET h == toLowerCase(haystack)
  IN  \E k \in 1..Len(needles) : startsWith(h, toLowerCase(needles[k]))

\* needles.some((n) => h.includes(String(n).toLowerCase())), h in lower case
includesAny(haystack, needles) ==
  LET h == toLowerCase(haystack)
  IN  \E k \in 1..Len(needles) : includes(h, toLowerCase(needles[k]))

\* A variant that requires every term.
mustIncludeAll(text, terms) ==
  LET s == toLowerCase(text)
  IN  \A k \in 1..Len(terms) : includes(s, toLowerCase(terms[k]))

\* terms.some((t) => s.includes(String(t).toLowerCase())), s in lower case
mustIncludeAny(text, terms) ==
  LET s == toLowerCase(text)
  IN  \E k \in 1..Len(terms) : includes(s, toLowerCase(terms[k]))

NeckNeedles ==
  <<Str("neck pain"), Str("cervical"), Str("c-spine"), Str("c spine"), Str("suboccip"),
    Str("upper trap"), Str("levator")>>

LbpNeedles ==
  <<Str("lbp"), Str("low back"), Str("lowback"), Str("lumbar"), Str("l-spine"), Str("l spine"),
    Str("radicul"), Str("sciatica"), Str("paraspinal"), Str("ql")>>

ShoulderNeedles ==
  <<Str("shoulder pain"), Str("rotator cuff"), Str("rtc"), Str("impingement"), Str("gh"),
    Str("glenohumeral")>>

\* A variant without the keywords of the patella.
KneeNeedlesWithoutPatella ==
  <<Str("knee pain"), Str("knee oa"), Str("tka")>>

KneeNeedles ==
  <<Str("knee pain"), Str("knee oa"), Str("tka"), Str("patella"), Str("patellar")>>

MTNeedles ==
  <<Str(" mt "), Str("mt,"), Str("mt."), Str("manual therapy"), Str("manual tx"), Str("stm"),
    Str("soft tissue"), Str("iastm")>>

TherActNeedles ==
  <<Str("theract"), Str("ther-act"), Str("ther act"), Str("functional training"),
    Str("functional task"), Str("sit-to-stand"), Str("sit to stand"), Str("sts"),
    Str("transfer"), Str("transfers"), Str("lifting"), Str("carry")>>

CoreNeedles ==
  <<Str("core"), Str("abdominal"), Str("abd"), Str("trunk stability"), Str("stabilizer"),
    Str("stabilizers")>>

PatellaNeedles ==
  <<Str("patella hypomobile"), Str("patellar hypomobile"), Str("hypomobile patella"),
    Str("patellar mobility limited")>>

PostureNeedles ==
  <<Str("poor posture"), Str("forward head"), Str("forward head lean"), Str("rounded shoulders"),
    Str("kyphosis"), Str("scapular protraction")>>

GaitNeedles ==
  <<Str("abnormal gait"), Str("impaired gait"), Str("trendelenburg"), Str("antalgic"),
    Str("shuffling"), Str("decreased stride"), Str("decreased step"), Str("gait deviation")>>

detectVisitTopicsFromUserText(userText) ==
  LET Topics(all) ==
      [ neckTopic |-> includesAny(all, NeckNeedles),
        lbpTopic |-> includesAny(all, LbpNeedles),
        shoulderTopic |-> includesAny(all, ShoulderNeedles),
        kneeTopic |-> includesAny(all, KneeNeedles),
        mentionsMT |-> includesAny(all, MTNeedles),
        mentionsTherAct |-> includesAny(all, TherActNeedles),
        mentionsCore |-> includesAny(all, CoreNeedles),
        patellaHypomobile |-> includesAny(all, PatellaNeedles),
        poorPosture |-> includesAny(all, PostureNeedles),
        gaitImpairment |-> includesAny(all, GaitNeedles) ]
  IN  Topics(normalizeSpaces(userText))

NeckDirective ==
  Str("If neck/cervical topic: include STM to release suboccipitals, posterior cervical musculature, UT, and levator scap; include manual stretching emphasizing SCM release/stretch, pec minor stretch, lat stretch, and UT/levator scap stretch; MUST name those muscles (no 'neck muscles').")

LbpDirective ==
  Str("If LBP/lumbar topic: include STM to release lumbar paraspinals, QL, multifidi, glute med, TFL, and piriformis; include manual stretching to HS, glute med, TFL, and piriformis; MUST name those muscles (no 'back muscles').")

LbpTherActDirective ==
  Str("If LBP and TherAct mentioned: include TherAct functional training (e.g., sit-to-stand mechanics, transfer training, hip hinge/lifting mechanics, functional mobility tasks) consistent with user instruction, without adding devices or assist levels.")

CoreDirective ==
  Str("If core/abdominal mentioned: include core and abd stabilizers addressed via core activation techniques and TherEx targeting trunk stabilization.")

ShoulderDirective ==
  Str("If shoulder topic: MUST name supraspinatus, deltoid, infraspinatus, teres minor, teres major, and lats; if MT/STM is referenced, phrase as STM/MT to release those specific tissues (no 'shoulder region').")

KneeDirective ==
  Str("If knee topic and MT/STM referenced: MUST name IT band, distal quads, popliteus, distal medial/lateral HS, and proximal medial gastroc (no 'knee muscles').")

PatellaDirective ==
  Str("If patella hypomobile mentioned: include patellar joint mobilization using GPM III-IV in all directions to improve mobility and decrease pain.")

PostureDirective ==
  Str("If poor posture/forward head mentioned: include postural training for awareness, upper back/T-spine strengthening, and pec minor stretching.")

GaitDirective ==
  Str("If gait impairment/Trendelenburg mentioned: include gait training and education to reduce deviations and improve mechanics with increased step/stride length and improved reciprocal movement (as appropriate).")

MTDirective ==
  Str("If MT/STM is mentioned anywhere: avoid generic phrases like 'address muscle tension'; name the specific tissues relevant to the region.")

\* The directive when the condition holds, nothing otherwise (one
\* conditional constraints.push).
PushIf(cond, directive) == IF cond THEN <<directive>> ELSE <<>>

\* A variant that has no directive for low back with TherAct.
muscleConstraintsWithoutTherAct(t) ==
  PushIf(t.neckTopic, NeckDirective) \o
  PushIf(t.lbpTopic, LbpDirective) \o
  PushIf(t.mentionsCore, CoreDirective) \o
  PushIf(t.shoulderTopic, ShoulderDirective) \o
  PushIf(t.kneeTopic, KneeDirective) \o
  PushIf(t.kneeTopic /\ t.patellaHypomobile, PatellaDirective) \o
  PushIf(t.poorPosture, PostureDirective) \o
  PushIf(t.gaitImpairment, GaitDirective) \o
  PushIf(t.mentionsMT, MTDirective)

\* A variant that pushes the manual therapy directive first.
muscleConstraintsMTFirst(t) ==
  PushIf(t.mentionsMT, MTDirective) \o
  PushIf(t.neckTopic, NeckDirective) \o
  PushIf(t.lbpTopic, LbpDirective) \o
  PushIf(t.lbpTopic /\ t.mentionsTherAct, LbpTherActDirective) \o
  PushIf(t.mentionsCore, CoreDirective) \o
  PushIf(t.shoulderTopic, ShoulderDirective) \o
  PushIf(t.kneeTopic, KneeDirective) \o
  PushIf(t.kneeTopic /\ t.patellaHypomobile, PatellaDirective) \o
  PushIf(t.poorPosture, PostureDirective) \o
  PushIf(t.gaitImpairment, GaitDirective)

\* The constraints array of buildPTVisitSummaryMuscleConstraints.
muscleConstraints(t) ==
  PushIf(t.neckTopic, NeckDirective) \o
  PushIf(t.lbpTopic, LbpDirective) \o
  PushIf(t.lbpTopic /\ t.mentionsTherAct, LbpTherActDirective) \o
  PushIf(t.mentionsCore, CoreDirective) \o
  PushIf(t.shoulderTopic, ShoulderDirective) \o
  PushIf(t.kneeTopic, KneeDirective) \o
  PushIf(t.kneeTopic /\ t.patellaHypomobile, PatellaDirective) \o
  PushIf(t.poorPosture, PostureDirective) \o
  PushIf(t.gaitImpairment, GaitDirective) \o
  PushIf(t.mentionsMT, MTDirective)

buildPTVisitSummaryMuscleConstraints(userText) ==
  LET Result(t) == [constraintsText |-> join(muscleConstraints(t), Str("\n  ")), topics |-> t]
  IN  Result(detectVisitTopicsFromUserText(userText))

\* A variant that accepts the grade in Arabic numerals too.
hasGpmGradeArabic(s) ==
  LET t == toLowerCase(s)
  IN  \E i \in 1..Len(t) :
         /\ MatchAt(t, i, Str("gpm"))
         /\ LET j == IF IsSpace(At(t, i + 3)) THEN SpaceRunEnd(t, i + 3) + 1 ELSE i + 3
            IN  \/ MatchAt(t, j, Str("iii")) /\ (MatchAt(t, j + 3, Str("iv")) \/ MatchAt(t, j + 3, Str("-iv")))
                \/ MatchAt(t, j, Str("3-4"))

\* /GPM\s*III-?IV/i.test(s)
hasGpmGrade(s) ==
  LET t == toLowerCase(s)
  IN  \E i \in 1..Len(t) :
         /\ MatchAt(t, i, Str("gpm"))
         /\ LET j == IF IsSpace(At(t, i + 3)) THEN SpaceRunEnd(t, i + 3) + 1 ELSE i + 3
            IN  /\ MatchAt(t, j, Str("iii"))
                /\ MatchAt(t, j + 3, Str("iv")) \/ MatchAt(t, j + 3, Str("-iv"))

validatePTVisitSummaryMuscleSpecificity(summary, userText) ==
  LET Rules(t, s) ==
      IF t.shoulderTopic /\ ~mustIncludeAny(s, <<Str("supraspinatus"), Str("deltoid"), Str("infraspinatus"), Str("teres minor"), Str("teres major"), Str("lat")>>)
        THEN Fail(Str("PT visit summary: shoulder topic requires explicit muscles (supraspinatus, deltoid, infraspinatus, teres minor/major, lats)."))
      ELSE IF t.neckTopic /\ ~mustIncludeAny(s, <<Str("suboccip"), Str("posterior cervical"), Str("upper trap"), Str("levator"), Str("scm"), Str("pec minor"), Str("lat")>>)
        THEN Fail(Str("PT visit summary: neck topic requires explicit muscles (suboccipitals, posterior cervical, UT, levator scap, SCM, pec minor, lats)."))
      ELSE IF t.lbpTopic /\ ~mustIncludeAny(s, <<Str("paraspinal"), Str("ql"), Str("multif"), Str("glute med"), Str("tfl"), Str("piriformis"), Str("hamstring")>>)
        THEN Fail(Str("PT visit summary: LBP topic requires explicit muscles (lumbar paraspinals, QL, multifidi, glute med, TFL, piriformis, HS)."))
      ELSE IF t.kneeTopic /\ t.mentionsMT /\ ~mustIncludeAny(s, <<Str("it band"), Str("distal quad"), Str("popliteus"), Str("hamstring"), Str("gastroc")>>)
        THEN Fail(Str("PT visit summary: knee + MT topic requires explicit tissues (ITB, distal quads, popliteus, distal HS, proximal medial gastroc)."))
      ELSE IF t.patellaHypomobile /\ ~hasGpmGrade(s)
        THEN Fail(Str("PT visit summary: patella hypomobile requires GPM III-IV patellar mobs in all directions."))
      ELSE IF t.mentionsCore /\ ~includesAny(s, <<Str("core activation"), Str("abd stabil"), Str("trunk stabil"), Str("core stabil")>>)
        THEN Fail(Str("PT visit summary: core/abdominal mention requires core activation / abd stabilizer training."))
      ELSE IF t.lbpTopic /\ t.mentionsTherAct /\ ~includesAny(s, <<Str("sit-to-stand"), Str("sit to stand"), Str("transfer"), Str("hip hinge"), Str("lifting mechanics"), Str("functional training")>>)
        THEN Fail(Str("PT visit summary: LBP + TherAct requires TherAct functional training detail (STS/transfers/hip hinge/lifting mechanics/etc.)."))
      ELSE IF t.poorPosture /\ ~includesAny(s, <<Str("postural"), Str("t-spine"), Str("upper back"), Str("pec minor")>>)
        THEN Fail(Str("PT visit summary: posture topic requires postural training + T-spine/upper back strengthening + pec minor stretching."))
      ELSE IF t.gaitImpairment /\ ~includesAny(s, <<Str("gait training"), Str("stride"), Str("step length"), Str("reciprocal")>>)
        THEN Fail(Str("PT visit summary: gait impairment requires gait training/education emphasizing step/stride length and reciprocal pattern."))
      ELSE Ok
  IN  Rules(detectVisitTopicsFromUserText(userText), summary)

(***************************************************************************)
(* POST /generate                                                          *)
(***************************************************************************)

VARIABLES
  patientMemory,   \* the process-wide Map of pickForPatient: key -> index
  req,             \* per request: where the handler is suspended, its locals
  calls,           \* per request: the oracle calls issued, in order
  replies,         \* per request: the texts the oracle returned, in order
  res,             \* per request: the responses sent, in order
  fmtChecks,       \* per request: the runs of validateGenerated, in order
  contentChecks,   \* per request: the runs of the content validator, in order
  compiles,        \* per request: the runs of the constraint compiler
  started,         \* the number of requests received so far
  probe            \* the last application of a function called on its own

vars == <<patientMemory, req, calls, replies, res, fmtChecks, contentChecks, compiles, started,
          probe>>

\* The requests the server handles in one behaviour, one after the other.
MaxRequests == 1

\* The request slots.
Requests == {"r1"}

Last(seq) == seq[Len(seq)]

\* A variant of OrElse without the fallback.
OrEmpty(a, b) == a

\* a || b on strings: b when a is empty.
OrElse(a, b) == IF a # <<>> THEN a ELSE b

\* A variant of Field that forgets the fallback: String(undefined) is the
\* text "undefined".
FieldWithoutFallback(body, name, fallback) ==
  IF name \in DOMAIN body THEN body[name] ELSE Str("undefined")

\* String(req.body?.name || fallback)
Field(body, name, fallback) ==
  OrElse(IF name \in DOMAIN body THEN body[name] ELSE <<>>, fallback)

TopicsUserText == Str(" Pt has  neck\tpain, LBP\r\n")

PlainUserText == Str("TherEx today")

\* The request bodies of the model: no field at all, a userText of white
\* space only, an instruction with the neck and LBP topics for PT (by
\* default) and for OT, and an instruction without any topic keyword.
Bodies ==
  { [f \in {} |-> <<>>],
    [userText |-> Str("  \r\n\t "), patientLabel |-> Str("A")],
    [userText |-> TopicsUserText],
    [userText |-> TopicsUserText, discipline |-> Str("ot "), patientLabel |-> Str(" A ")],
    [userText |-> PlainUserText, discipline |-> Str("PT"), patientLabel |-> Str("A")] }

\* A note in the three-section layout.
render(subjective, summary, poc) ==
  Str("Subjective\n") \o subjective \o Str("\n\nSummary\n") \o summary \o Str("\n\nPOC\n") \o poc

\* What the oracle may answer to a request whose prompt names the given
\* rotation picks: a note that follows every format rule but names no
\* muscle; one that names neck muscles only, sent with CR LF line ends and
\* extra blank lines; one that names neck and lumbar muscles; a note that
\* ends with another closing sentence of the pool; and no text at all.
OracleContents(introPrefix, closerSentence, pocOpener, discipline) ==
  LET subjective == Str("Pt reports neck pain.")
      plain == Str("improves. Pt needs cues. ROM gains noted. Pt is motivated. ")
      neck == Str("improves. STM to upper trap and levator scap. ROM gains noted. Pt is motivated. ")
      neckAndLbp == Str("improves. STM to upper trap and QL. ROM gains noted. Pt is motivated. ")
      pool == IF discipline = "OT" THEN OT_SUMMARY_CLOSERS ELSE SUMMARY_CLOSERS
      other == pool[CHOOSE k \in 1..Len(pool) : pool[k] # closerSentence]
      poc == expectedPocLine(pocOpener, discipline)
  IN  { render(subjective, introPrefix \o plain \o closerSentence, poc),
        Str("\r\n") \o
          render(subjective \o Str("\r\n\r\n"), introPrefix \o neck \o closerSentence \o Str("\n"), poc) \o
          Str("\n\n\n"),
        render(subjective, introPrefix \o neckAndLbp \o closerSentence, poc),
        render(subjective, introPrefix \o plain \o other, poc),
        <<>> }

\* err.message of a failed oracle call.
OracleErrors == {Str("Request timed out."), Str("429 You exceeded your current quota.")}

IdleRequest ==
  [ pc |-> "idle", body |-> <<>>, patientLabel |-> <<>>, userText |-> <<>>, discipline |-> "",
    introPrefix |-> <<>>, closerSentence |-> <<>>, pocOpener |-> <<>>, out |-> <<>>,
    v1 |-> Null, vMuscle |-> Null, err |-> Null ]

\* The process after start: an empty rotation map and no request yet, for
\* the given request slots.
Started(slots) ==
  /\ patientMemory = <<>>
  /\ req = [r \in slots |-> IdleRequest]
  /\ calls = [r \in slots |-> <<>>]
  /\ replies = [r \in slots |-> <<>>]
  /\ res = [r \in slots |-> <<>>]
  /\ fmtChecks = [r \in slots |-> <<>>]
  /\ contentChecks = [r \in slots |-> <<>>]
  /\ compiles = [r \in slots |-> 0]
  /\ started = 0

Init == Started(Requests) /\ probe = Null

\* A variant of Respond without the return: the response is sent and the
\* handler stays where it was.
RespondAndContinue(r, rq, status, body) ==
  /\ res' = [res EXCEPT ![r] = Append(@, [status |-> status, body |-> body])]
  /\ req' = [req EXCEPT ![r] = [rq EXCEPT !.pc = req[r].pc]]

\* res.status(status).json(body) followed by return: the handler is over.
Respond(r, rq, status, body) ==
  /\ res' = [res EXCEPT ![r] = Append(@, [status |-> status, body |-> body])]
  /\ req' = [req EXCEPT ![r] = [rq EXCEPT !.pc = "done"]]

\* A variant of CallOracle that stays at the stage it was called from, as a
\* retry loop around the await would.
CallOracleAndRetry(r, rq, stage, temperature, system, prompt) ==
  /\ calls' = [calls EXCEPT ![r] = Append(@, [stage |-> stage, temperature |-> temperature,
                                               system |-> system, prompt |-> prompt])]
  /\ req' = [req EXCEPT ![r] = [rq EXCEPT !.pc = req[r].pc]]

\* await openai.chat.completions.create(...): the call is issued and the
\* handler is suspended at the given stage.
CallOracle(r, rq, stage, temperature, system, prompt) ==
  /\ calls' = [calls EXCEPT ![r] = Append(@, [stage |-> stage, temperature |-> temperature,
                                               system |-> system, prompt |-> prompt])]
  /\ req' = [req EXCEPT ![r] = [rq EXCEPT !.pc = stage]]

\* A variant of validateForRequest that reads the closing sentence from the
\* rotation map as it is when the validator runs.
validateForRequestWithStoredCloser(rq, text) ==
  LET arr == IF rq.discipline = "OT" THEN OT_SUMMARY_CLOSERS ELSE SUMMARY_CLOSERS
      suffix == IF rq.discipline = "OT" THEN "::closeOT" ELSE "::closePT"
  IN  validateGenerated(text, rq.introPrefix,
                        arr[patientMemory[rotationKey(rq.patientLabel \o Str(suffix), arr)] + 1],
                        rq.pocOpener, rq.discipline)

\* validateGenerated with the rotation picks of the request.
validateForRequest(rq, text) ==
  validateGenerated(text, rq.introPrefix, rq.closerSentence, rq.pocOpener, rq.discipline)

\* A variant of repairPromptForRequest that leaves the closing sentence out.
repairPromptForRequestWithoutCloser(rq, badOutput, extraSummaryConstraints) ==
  buildRepairPrompt(rq.patientLabel, rq.userText, badOutput, rq.introPrefix, <<>>,
                    rq.pocOpener, rq.discipline, extraSummaryConstraints)

\* buildRepairPrompt with the fields of the request.
repairPromptForRequest(rq, badOutput, extraSummaryConstraints) ==
  buildRepairPrompt(rq.patientLabel, rq.userText, badOutput, rq.introPrefix, rq.closerSentence,
                    rq.pocOpener, rq.discipline, extraSummaryConstraints)

\* A variant of RespondInvalidAfterRepair that publishes the repair output
\* although the format validator rejected it.
RespondUnvalidatedRepair(r, rq, out, v2) ==
  Respond(r, [rq EXCEPT !.out = out], 200, [summary |-> out])

\* A variant of RespondInvalidAfterRepair whose raw text is the draft.
RespondInvalidWithDraft(r, rq, out, v2) ==
  Respond(r, [rq EXCEPT !.out = out], 422,
          [ error |-> Str("Model output failed validation after repair."),
            reason1 |-> rq.v1.reason,
            reason2 |-> v2.reason,
            raw |-> rq.out ])

\* Lines 911-918: the format validator failed on the draft (rq.v1) and on
\* the output of the format repair (v2).
RespondInvalidAfterRepair(r, rq, out, v2) ==
  Respond(r, [rq EXCEPT !.out = out], 422,
          [ error |-> Str("Model output failed validation after repair."),
            reason1 |-> rq.v1.reason,
            reason2 |-> v2.reason,
            raw |-> out ])

\* A variant of RespondBrokenFormat that falls back to the note that had
\* passed the format validator before the content repair.
RespondPreviousNote(r, rq, out2, vFmt) ==
  Respond(r, rq, 200, [summary |-> rq.out])

\* A variant of RespondBrokenFormat with the body of the other 422.
RespondBrokenFormatTwoReasons(r, rq, out2, vFmt) ==
  Respond(r, rq, 422,
          [ error |-> Str("Muscle enforcement repair broke formatting constraints."),
            reason1 |-> rq.vMuscle.reason,
            reason2 |-> vFmt.reason,
            raw |-> out2 ])

\* Lines 956-962: the format validator failed on the output of the content
\* repair.
RespondBrokenFormat(r, rq, out2, vFmt) ==
  Respond(r, rq, 422,
          [ error |-> Str("Muscle enforcement repair broke formatting constraints."),
            reason |-> vFmt.reason,
            raw |-> out2 ])

\* A variant of RespondSummaryWithDebug that turns the residual content
\* failure into an error response.
RespondContentFailure(r, rq, out2, vMuscle2) ==
  Respond(r, rq, 422,
          [ error |-> Str("Muscle enforcement failed."), reason |-> vMuscle2.reason, raw |-> out2 ])

\* A variant of RespondSummaryWithDebug with the two reasons exchanged.
RespondSummaryWithDebugSwapped(r, rq, out2, vMuscle2) ==
  Respond(r, rq, 200,
          [ summary |-> out2,
            debug |-> [ muscleRuleFail |-> vMuscle2.reason,
                        muscleRuleStillFail |-> rq.vMuscle.reason ] ])

\* A variant of RespondSummaryWithDebug that leaves the debug field out.
RespondSummaryWithoutDebug(r, rq, out2, vMuscle2) ==
  Respond(r, rq, 200, [summary |-> out2])

\* Lines 969-978: the content validator failed on the draft (rq.vMuscle)
\* and on the output of the content repair (vMuscle2).
RespondSummaryWithDebug(r, rq, out2, vMuscle2) ==
  Respond(r, rq, 200,
          [ summary |-> out2,
            debug |-> [ muscleRuleFail |-> rq.vMuscle.reason,
                        muscleRuleStillFail |-> vMuscle2.reason ] ])

\* Lines 981 and 986: return res.json({ summary })
RespondSummary(r, rq, summary) ==
  Respond(r, rq, 200, [summary |-> summary])

\* A variant of enforcesMuscles that never holds.
enforcesMusclesNever(rq) == FALSE

\* A variant of enforcesMuscles that forgets the discipline.
enforcesMusclesAlways(rq) == TRUE

\* Line 922: if (discipline === "PT")
enforcesMuscles(rq) == rq.discipline = "PT"

\* A variant of RespondUserTextRequired in a handler that picks the intro
\* prefix before it looks at userText.
RespondUserTextRequiredAfterPick(r, body, patientLabel, userText) ==
  /\ res' = [res EXCEPT ![r] =
               <<[status |-> 400, body |-> [error |-> Str("userText is required.")]]>>]
  /\ req' = [req EXCEPT ![r] = [IdleRequest EXCEPT !.body = body,
                                                   !.patientLabel = patientLabel,
                                                   !.userText = userText,
                                                   !.pc = "done"]]
  /\ calls' = [calls EXCEPT ![r] = <<>>]
  /\ \E intro \in pickIntroPrefix(patientMemory, patientLabel) : patientMemory' = intro.memory

\* Line 857: if (!userText.trim()) return res.status(400)...; the
\* handler is over before any pick.
RespondUserTextRequired(r, body, patientLabel, userText) ==
  /\ res' = [res EXCEPT ![r] =
               <<[status |-> 400, body |-> [error |-> Str("userText is required.")]]>>]
  /\ req' = [req EXCEPT ![r] = [IdleRequest EXCEPT !.body = body,
                                                   !.patientLabel = patientLabel,
                                                   !.userText = userText,
                                                   !.pc = "done"]]
  /\ calls' = [calls EXCEPT ![r] = <<>>]
  /\ UNCHANGED patientMemory

\* Lines 855-882: the handler from its start to the first await, for a
\* request with the given body.
Handle(r, body) ==
  /\ started' = started + 1
  /\ UNCHANGED probe
  /\ replies' = [replies EXCEPT ![r] = <<>>]
  /\ fmtChecks' = [fmtChecks EXCEPT ![r] = <<>>]
  /\ contentChecks' = [contentChecks EXCEPT ![r] = <<>>]
  /\ compiles' = [compiles EXCEPT ![r] = 0]
  /\ LET Draft(rq, intro, closer, opener) ==
        /\ patientMemory' = opener.memory
        /\ res' = [res EXCEPT ![r] = <<>>]
        /\ calls' = [calls EXCEPT ![r] =
             <<[ stage |-> "draft", temperature |-> "0.2",
                 system |-> "Follow formatting rules exactly. Do not add facts. Output only the note.",
                 prompt |-> buildGeneratePrompt(rq.patientLabel, rq.userText, intro.value,
                                                closer.value, opener.value, rq.discipline) ]>>]
        /\ req' = [req EXCEPT ![r] = [rq EXCEPT !.introPrefix = intro.value,
                                                !.closerSentence = closer.value,
                                                !.pocOpener = opener.value,
                                                !.pc = "draft"]]
      Rotate(rq) ==
        \E intro \in pickIntroPrefix(patientMemory, rq.patientLabel) :
          \E closer \in pickCloserForDiscipline(intro.memory, rq.patientLabel, rq.discipline) :
            \E opener \in pickPocOpenerForDiscipline(closer.memory, rq.patientLabel, rq.discipline) :
              Draft(rq, intro, closer, opener)
      Start(patientLabel, userText, disciplineRaw) ==
        IF trim(userText) = <<>>
        THEN RespondUserTextRequired(r, body, patientLabel, userText)
        ELSE Rotate([IdleRequest EXCEPT !.body = body,
                                        !.patientLabel = patientLabel,
                                        !.userText = userText,
                                        !.discipline = IF disciplineRaw = Str("OT") THEN "OT" ELSE "PT"])
     IN  Start(OrElse(trim(Field(body, "patientLabel", Str("Patient #1"))), Str("Patient #1")),
               normalizeSpaces(Field(body, "userText", <<>>)),
               trim(toUpperCase(Field(body, "discipline", Str("PT")))))

\* A request arrives at a free slot.
Receive(r) ==
  /\ req[r].pc \in {"idle", "done"}
  /\ started < MaxRequests
  /\ \E body \in Bodies : Handle(r, body)

\* Lines 921-986: the muscle enforcement on a text that passed the format
\* validator, up to the content-repair call or the response.
MuscleEnforcement(r, rq, out) ==
  LET Checked(summary, vMuscle) ==
        /\ contentChecks' = [contentChecks EXCEPT ![r] =
                               Append(@, [summary |-> summary, result |-> vMuscle])]
        /\ IF ~vMuscle.ok
           THEN /\ compiles' = [compiles EXCEPT ![r] = @ + 1]
                /\ CallOracle(r, [rq EXCEPT !.out = out, !.vMuscle = vMuscle], "repair2", "0.15",
                     "Fix content while keeping EXACT format. Do not add facts beyond the user instruction. Output only the corrected note.",
                     repairPromptForRequest(rq, out,
                       vMuscle.reason \o
                       Str("\n  You MUST follow these topic-based content rules if applicable:\n  ") \o
                       buildPTVisitSummaryMuscleConstraints(rq.userText).constraintsText))
                /\ UNCHANGED res
           ELSE /\ RespondSummary(r, [rq EXCEPT !.out = out, !.vMuscle = vMuscle], out)
                /\ UNCHANGED <<calls, compiles>>
      Parsed(sections) ==
        IF sections # Null
        THEN Checked(sections.summary,
                     validatePTVisitSummaryMuscleSpecificity(sections.summary, rq.userText))
        ELSE /\ RespondSummary(r, [rq EXCEPT !.out = out], out)
             /\ UNCHANGED <<calls, contentChecks, compiles>>
  IN  IF enforcesMuscles(rq)
      THEN Parsed(splitSections(out))
      ELSE /\ RespondSummary(r, [rq EXCEPT !.out = out], out)
           /\ UNCHANGED <<calls, contentChecks, compiles>>

\* Lines 884-906 and 921-986: the draft call returns.
DraftReturns(r) ==
  /\ req[r].pc = "draft"
  /\ \E content \in OracleContents(req[r].introPrefix, req[r].closerSentence,
                                   req[r].pocOpener, req[r].discipline) :
       LET Validated(out, v1) ==
             /\ fmtChecks' = [fmtChecks EXCEPT ![r] = Append(@, [text |-> out, result |-> v1])]
             /\ IF ~v1.ok
                THEN /\ CallOracle(r, [req[r] EXCEPT !.out = out, !.v1 = v1], "repair", "0.2",
                          "Fix formatting strictly. Do not add facts. Output only the corrected note.",
                          repairPromptForRequest(req[r], out, <<>>))
                     /\ UNCHANGED <<res, contentChecks, compiles>>
                ELSE MuscleEnforcement(r, [req[r] EXCEPT !.v1 = v1], out)
           Returned(out) == Validated(out, validateForRequest(req[r], out))
       IN  /\ replies' = [replies EXCEPT ![r] = Append(@, content)]
           /\ Returned(normalizeNewlines(content))
  /\ UNCHANGED <<patientMemory, started, probe>>

\* Lines 908-919 and 921-986: the format-repair call returns.
RepairReturns(r) ==
  /\ req[r].pc = "repair"
  /\ \E content \in OracleContents(req[r].introPrefix, req[r].closerSentence,
                                   req[r].pocOpener, req[r].discipline) :
       LET Validated(out, v2) ==
             /\ fmtChecks' = [fmtChecks EXCEPT ![r] = Append(@, [text |-> out, result |-> v2])]
             /\ IF ~v2.ok
                THEN /\ RespondInvalidAfterRepair(r, req[r], out, v2)
                     /\ UNCHANGED <<calls, contentChecks, compiles>>
                ELSE MuscleEnforcement(r, req[r], out)
           Returned(out) == Validated(out, validateForRequest(req[r], out))
       IN  /\ replies' = [replies EXCEPT ![r] = Append(@, content)]
           /\ Returned(normalizeNewlines(content))
  /\ UNCHANGED <<patientMemory, started, probe>>

\* Lines 952-981: the content-repair call returns.
Repair2Returns(r) ==
  /\ req[r].pc = "repair2"
  /\ \E content \in OracleContents(req[r].introPrefix, req[r].closerSentence,
                                   req[r].pocOpener, req[r].discipline) :
       LET Rechecked(out2, sections2, vMuscle2) ==
             /\ contentChecks' =
                  IF sections2 # Null
                  THEN [contentChecks EXCEPT ![r] =
                          Append(@, [summary |-> sections2.summary, result |-> vMuscle2])]
                  ELSE contentChecks
             /\ IF ~vMuscle2.ok
                THEN RespondSummaryWithDebug(r, req[r], out2, vMuscle2)
                ELSE RespondSummary(r, req[r], out2)
           Parsed(out2, sections2) ==
             Rechecked(out2, sections2,
                       IF sections2 # Null
                       THEN validatePTVisitSummaryMuscleSpecificity(sections2.summary, req[r].userText)
                       ELSE Fail(Str("Could not parse summary after repair.")))
           Validated(out2, vFmt) ==
             /\ fmtChecks' = [fmtChecks EXCEPT ![r] = Append(@, [text |-> out2, result |-> vFmt])]
             /\ IF ~vFmt.ok
                THEN /\ RespondBrokenFormat(r, req[r], out2, vFmt)
                     /\ UNCHANGED contentChecks
                ELSE Parsed(out2, splitSections(out2))
           Returned(out2) == Validated(out2, validateForRequest(req[r], out2))
       IN  /\ replies' = [replies EXCEPT ![r] = Append(@, content)]
           /\ Returned(normalizeNewlines(OrElse(content, req[r].out)))
  /\ UNCHANGED <<patientMemory, calls, compiles, started, probe>>

\* A variant of OracleFails that issues the failed call again and waits for
\* it, as a retry in the catch block would.
OracleFailsAndRetries(r) ==
  /\ req[r].pc \in {"draft", "repair", "repair2"}
  /\ \E message \in OracleErrors :
       req' = [req EXCEPT ![r] = [req[r] EXCEPT !.err = message]]
  /\ calls' = [calls EXCEPT ![r] = Append(@, Last(@))]
  /\ UNCHANGED <<patientMemory, replies, res, fmtChecks, contentChecks, compiles, started, probe>>

\* A variant of OracleFails whose catch block takes the intro prefix of the
\* request back: it stores the index before the one the request picked.
OracleFailsAndRollsBack(r) ==
  /\ req[r].pc \in {"draft", "repair", "repair2"}
  /\ \E message \in OracleErrors :
       Respond(r, [req[r] EXCEPT !.err = message], 500,
               [error |-> Str("Generate failed."), details |-> message])
  /\ patientMemory' =
       [patientMemory EXCEPT
          ![rotationKey(req[r].patientLabel \o Str("::intro"), SUMMARY_INTRO_PREFIXES)] =
             (@ + Len(SUMMARY_INTRO_PREFIXES) - 1) % Len(SUMMARY_INTRO_PREFIXES)]
  /\ UNCHANGED <<calls, replies, fmtChecks, contentChecks, compiles, started, probe>>

\* Lines 987-990: an awaited oracle call throws err; the catch block answers
\* 500 with err.message.
OracleFails(r) ==
  /\ req[r].pc \in {"draft", "repair", "repair2"}
  /\ \E message \in OracleErrors :
       Respond(r, [req[r] EXCEPT !.err = message], 500,
               [error |-> Str("Generate failed."), details |-> message])
  /\ UNCHANGED <<patientMemory, calls, replies, fmtChecks, contentChecks, compiles, started, probe>>

Next ==
  \E r \in Requests :
    \/ Receive(r)
    \/ DraftReturns(r)
    \/ RepairReturns(r)
    \/ Repair2Returns(r)
    \/ OracleFails(r)

Spec == Init /\ [][Next]_vars

\* Requests that arrive one after the other, each after the response to
\* the one before.
MaxArrivals == 3

Arrive(r) ==
  /\ req[r].pc \in {"idle", "done"}
  /\ started < MaxArrivals
  /\ \E body \in Bodies : Handle(r, body)

SequenceNext ==
  \E r \in Requests :
    \/ Arrive(r)
    \/ DraftReturns(r)
    \/ RepairReturns(r)
    \/ Repair2Returns(r)
    \/ OracleFails(r)

SequenceSpec == Init /\ [][SequenceNext]_vars

\* The oracle call a request waits for returns or throws.
OracleSettles(r) ==
  \/ OracleFails(r)
  \/ DraftReturns(r)
  \/ RepairReturns(r)
  \/ Repair2Returns(r)

\* Requests one after the other with an oracle that answers: the promise
\* of every awaited call is settled at some time, and the handler, which
\* runs on the event loop with nothing to block it, resumes then.
FairSpec ==
  /\ Init
  /\ [][SequenceNext]_vars
  /\ \A r \in Requests : WF_vars(OracleSettles(r))

\* Two requests in flight at once: the handler of one request runs from an
\* await to the next while the other is suspended at an await of its own.
ConcurrentRequests == {"r1", "r2"}

\* The body both requests carry: the same patient label and the same
\* discipline, hence the same three rotation keys. The instruction names
\* no topic, so that the content validator accepts every note and the
\* content repair is never called.
ConcurrentBody == [userText |-> PlainUserText, discipline |-> Str("PT"), patientLabel |-> Str("A")]

ConcurrentInit == Started(ConcurrentRequests) /\ probe = Null

\* A request arrives while the other may be waiting for the oracle.
ConcurrentReceive(r) ==
  /\ req[r].pc = "idle"
  /\ Handle(r, ConcurrentBody)

ConcurrentNext ==
  \E r \in ConcurrentRequests :
    \/ ConcurrentReceive(r)
    \/ DraftReturns(r)
    \/ RepairReturns(r)
    \/ OracleFails(r)

ConcurrentSpec == ConcurrentInit /\ [][ConcurrentNext]_vars

\* Two requests for one patient label in flight at once, the first with an
\* instruction that names topics, so that its content repair is called while
\* the second request advances the rotation map.
SuspendedBody(r) ==
  IF r = "r1" THEN [userText |-> TopicsUserText, patientLabel |-> Str("A")] ELSE ConcurrentBody

SuspendedReceive(r) ==
  /\ req[r].pc = "idle"
  /\ Handle(r, SuspendedBody(r))

SuspendedNext ==
  \E r \in ConcurrentRequests :
    \/ SuspendedReceive(r)
    \/ DraftReturns(r)
    \/ RepairReturns(r)
    \/ Repair2Returns(r)
    \/ OracleFails(r)

SuspendedSpec == ConcurrentInit /\ [][SuspendedNext]_vars


(***************************************************************************)
(* The rotation selector called on its own                                 *)
(***************************************************************************)

\* The picks made in one behaviour.
MaxPicks == 6

\* The patient label of the picks.
RotationLabels == {Str("A")}

\* A pool of one element; the pools of the program have 13, 5 and 8.
SinglePool == <<Str("Pt tolerates tx well.")>>

\* No pick yet. n counts the picks; op, label and discipline name the last
\* one, before is the map it found, value the element it returned,
\* previous the element the pick before it of the same pool returned (none:
\* the empty text) and last the element the latest pick of each pool
\* returned.
NoPick ==
  [ n |-> 0, op |-> "none", label |-> <<>>, discipline |-> "", before |-> <<>>,
    value |-> <<>>, previous |-> <<>>, last |-> <<>> ]

RotationInit == Started(Requests) /\ probe = NoPick

\* The outcome of a pick becomes the state: patientMemory is the map the
\* pick left.
TakePick(op, label, discipline, outcome) ==
  /\ probe.n < MaxPicks
  /\ patientMemory' = outcome.memory
  /\ probe' = [ n |-> probe.n + 1, op |-> op, label |-> label, discipline |-> discipline,
                before |-> patientMemory, value |-> outcome.value,
                previous |-> IF <<op, label, discipline>> \in DOMAIN probe.last
                             THEN probe.last[<<op, label, discipline>>] ELSE <<>>,
                last |-> [id \in DOMAIN probe.last \cup {<<op, label, discipline>>} |->
                            IF id = <<op, label, discipline>> THEN outcome.value
                            ELSE probe.last[id]] ]
  /\ UNCHANGED <<req, calls, replies, res, fmtChecks, contentChecks, compiles, started>>

CallPickIntroPrefix(label) ==
  \E outcome \in pickIntroPrefix(patientMemory, label) :
    TakePick("intro", label, "", outcome)

CallPickCloserForDiscipline(label, discipline) ==
  \E outcome \in pickCloserForDiscipline(patientMemory, label, discipline) :
    TakePick("closer", label, discipline, outcome)

CallPickPocOpenerForDiscipline(label, discipline) ==
  \E outcome \in pickPocOpenerForDiscipline(patientMemory, label, discipline) :
    TakePick("opener", label, discipline, outcome)

\* pickForPatient called with a pool of one element.
CallPickForPatient(label) ==
  \E outcome \in pickForPatient(patientMemory, label \o Str("::single"), SinglePool) :
    TakePick("single", label, "", outcome)

RotationNext ==
  \E label \in RotationLabels :
    \/ CallPickIntroPrefix(label)
    \/ \E discipline \in {"PT", "OT"} : CallPickCloserForDiscipline(label, discipline)
    \/ \E discipline \in {"PT", "OT"} : CallPickPocOpenerForDiscipline(label, discipline)
    \/ CallPickForPatient(label)

RotationSpec == RotationInit /\ [][RotationNext]_vars

(***************************************************************************)
(* The rotation selector over whole cycles of its pools                    *)
(***************************************************************************)

\* The picks made in one behaviour: one more than the longest pool has
\* elements.
MaxCyclePicks == 14

\* No pick yet. n counts the picks; picks holds, for each key of the map,
\* the pool of the key and the elements the picks for that key returned, in
\* execution order.
NoCyclePick == [n |-> 0, picks |-> <<>>]

CycleInit == Started(Requests) /\ probe = NoCyclePick

\* The outcome of a pick from the pool arr under the subject key becomes the
\* state.
TakeCyclePick(patientKey, arr, outcome) ==
  /\ probe.n < MaxCyclePicks
  /\ patientMemory' = outcome.memory
  /\ LET key == rotationKey(patientKey, arr)
         sofar == IF key \in DOMAIN probe.picks THEN probe.picks[key].values ELSE <<>>
     IN  probe' = [ n |-> probe.n + 1,
                    picks |-> [k \in DOMAIN probe.picks \cup {key} |->
                                 IF k = key
                                 THEN [arr |-> arr, values |-> Append(sofar, outcome.value)]
                                 ELSE probe.picks[k]] ]
  /\ UNCHANGED <<req, calls, replies, res, fmtChecks, contentChecks, compiles, started>>

CyclePickIntroPrefix(label) ==
  \E outcome \in pickIntroPrefix(patientMemory, label) :
    TakeCyclePick(label \o Str("::intro"), SUMMARY_INTRO_PREFIXES, outcome)

CyclePickCloser(label, discipline) ==
  \E outcome \in pickCloserForDiscipline(patientMemory, label, discipline) :
    TakeCyclePick(label \o Str("::close") \o Str(discipline),
                  IF discipline = "OT" THEN OT_SUMMARY_CLOSERS ELSE SUMMARY_CLOSERS, outcome)

CyclePickPocOpener(label, discipline) ==
  \E outcome \in pickPocOpenerForDiscipline(patientMemory, label, discipline) :
    TakeCyclePick(label \o Str("::poc") \o Str(discipline),
                  IF discipline = "OT" THEN OT_POC_OPENERS ELSE POC_OPENERS, outcome)

CycleNext ==
  \E label \in RotationLabels :
    \/ CyclePickIntroPrefix(label)
    \/ \E discipline \in {"PT", "OT"} : CyclePickCloser(label, discipline)
    \/ \E discipline \in {"PT", "OT"} : CyclePickPocOpener(label, discipline)

CycleSpec == CycleInit /\ [][CycleNext]_vars

(***************************************************************************)
(* The format validator called on its own                                  *)
(***************************************************************************)

\* Subjective sections: a valid one; two sentences; a starter that is not
\* allowed; "tolerates tx well" after a starter that is not allowed, and
\* after an allowed one.
FormatSubjectives ==
  { Str("Pt reports neck pain."),
    Str("Pt reports neck pain. Pt notes stiffness."),
    Str("Patient reports neck pain."),
    Str("Pt tolerates tx well."),
    Str("Pt reports TherEx tolerated, tolerates  TX well.") }

\* What follows the intro prefix in the Summary, up to the closing
\* sentence: three more sentences; too few sentences; an arrow; a numbered
\* line; a third-person pronoun; an arrow, a bullet and "the patient" at
\* once; a banned generic opener (after the prefix "Pt demonstrates ").
FormatMiddles ==
  { Str("improved ROM. Pt needs cues. ROM gains noted. Pt is motivated. "),
    Str("improved ROM. "),
    Str("improved ROM. Pt needs cues. ROM ") \o <<ArrowUp>> \o Str(" noted. Pt is motivated. "),
    Str("improved ROM. Pt needs cues.\n1. ROM gains noted. Pt is motivated. "),
    Str("improved ROM. Pt needs cues. They are motivated. ROM gains noted. "),
    Str("improved ROM.\n") \o <<Bullet>> \o Str(" Pain ") \o <<ArrowDown>> \o
      Str(" today. The patient needs cues. Pt is motivated. "),
    Str("good engagement. Pt needs cues. ROM gains noted. Pt is motivated. ") }

\* The intro prefix the validator is given, and the one the Summary has.
FormatIntroPrefix == SUMMARY_INTRO_PREFIXES[3]

FormatIntroPrefixes == {FormatIntroPrefix, SUMMARY_INTRO_PREFIXES[4]}

\* The closing sentences the validator is given: one of each discipline.
FormatClosers == {SUMMARY_CLOSERS[2], OT_SUMMARY_CLOSERS[2]}

\* The POC sections for the expected line: that line; that line and a
\* second one; another single line.
FormatPocs(expectedPoc) ==
  { expectedPoc,
    expectedPoc \o Str("\nHEP issued."),
    Str("PT POC: Continue TherEx.") }

\* The layouts of a note: the three sections as required, and with one
\* line break only before the POC header.
FormatLayouts(subjective, summary, poc) ==
  { render(subjective, summary, poc),
    Str("Subjective\n") \o subjective \o Str("\n\nSummary\n") \o summary \o Str("\nPOC\n") \o poc }

\* The notes checked against a closing sentence and a discipline: every
\* combination of the parts above.
FormatTexts(closer, discipline) ==
  UNION { FormatLayouts(subjective, intro \o middle \o ending, poc) :
            subjective \in FormatSubjectives, intro \in FormatIntroPrefixes,
            middle \in FormatMiddles, ending \in {closer, SUMMARY_CLOSERS[1]},
            poc \in FormatPocs(expectedPocLine(POC_OPENERS[2], discipline)) }

\* The calls of validateGenerated: every note above, for either discipline
\* and a closing sentence of either discipline.
FormatInputs ==
  UNION { { [ text |-> text, introPrefix |-> FormatIntroPrefix, closerSentence |-> closer,
              pocOpener |-> POC_OPENERS[2], discipline |-> discipline ] :
            text \in FormatTexts(closer, discipline) } :
          closer \in FormatClosers, discipline \in {"PT", "OT"} }

FormatInit ==
  /\ Started(Requests)
  /\ \E input \in FormatInputs : probe = [input |-> input, result |-> Null]

CallValidateGenerated ==
  /\ probe.result = Null
  /\ probe' = [probe EXCEPT !.result =
                  validateGenerated(probe.input.text, probe.input.introPrefix,
                                    probe.input.closerSentence, probe.input.pocOpener,
                                    probe.input.discipline)]
  /\ UNCHANGED <<patientMemory, req, calls, replies, res, fmtChecks, contentChecks, compiles,
                 started>>

FormatNext == CallValidateGenerated

FormatSpec == FormatInit /\ [][FormatNext]_vars

(***************************************************************************)
(* The format validator called with the closing sentences of the pools     *)
(***************************************************************************)

\* The pool pickCloserForDiscipline draws from.
ClosersOf(discipline) == IF discipline = "OT" THEN OT_SUMMARY_CLOSERS ELSE SUMMARY_CLOSERS

\* How the Summary of a note may end when the k-th closing sentence of the
\* discipline is required: with that sentence; with the k-th sentence of the
\* other discipline; with the next sentence of the pool; with a sentence
\* after it; without its full stop; in lower case.
ClosingEndings(discipline, k) ==
  LET pool == ClosersOf(discipline)
      closer == pool[k]
  IN  { closer,
        ClosersOf(IF discipline = "OT" THEN "PT" ELSE "OT")[k],
        pool[(k % Len(pool)) + 1],
        closer \o Str(" Pt agrees."),
        SubSeq(closer, 1, Len(closer) - 1),
        toLowerCase(closer) }

\* The calls of validateGenerated as the handler of POST /generate makes
\* them: the closing sentence is one of the pool of the discipline.
ClosingInputs ==
  UNION { { [ text |-> render(Str("Pt reports neck pain."),
                              FormatIntroPrefix \o
                                Str("improved ROM. Pt needs cues. ROM gains noted. Pt is motivated. ") \o
                                ending,
                              expectedPocLine(POC_OPENERS[2], discipline)),
              introPrefix |-> FormatIntroPrefix, closerSentence |-> ClosersOf(discipline)[k],
              pocOpener |-> POC_OPENERS[2], discipline |-> discipline ] :
            ending \in ClosingEndings(discipline, k) } :
          discipline \in {"PT", "OT"}, k \in 1..Len(SUMMARY_CLOSERS) }

ClosingInit ==
  /\ Started(Requests)
  /\ \E input \in ClosingInputs : probe = [input |-> input, result |-> Null]

ClosingNext == CallValidateGenerated

ClosingSpec == ClosingInit /\ [][ClosingNext]_vars

(***************************************************************************)
(* The section parser called on its own                                    *)
(***************************************************************************)

\* What precedes the first header: nothing, or a line of text.
ParserBefores == {<<>>, Str("Note:\n")}

\* The line of the first header: the header, or another word.
ParserHeaders1 == {Str("Subjective\n"), Str("Subjectives\n")}

\* The contents of the Subjective section: one line; white space only; two
\* lines, one of which is the word Summary; a second block after a blank
\* line.
ParserSubjectives ==
  { Str("Pt reports pain."),
    Str(" \t"),
    Str("Pt reports pain.\nSummary\nPt notes stiffness."),
    Str("Pt reports pain.\n\nPt notes stiffness.") }

\* What separates a section from the next header: one blank line, none,
\* or two.
ParserGaps == {Str("\n\n"), Str("\n"), Str("\n\n\n")}

\* The line of the second header: the header, the header followed by
\* white space, or a misspelt one.
ParserHeaders2 == {Str("Summary\n"), Str("Summary \t\n"), Str("Summery\n")}

\* The contents of the Summary section: one line; a second block that
\* starts with a line Summary; a second block that starts with a line POC.
ParserSummaries ==
  { Str("Pt improves. ROM gains noted."),
    Str("Pt improves.\n\nSummary\nROM gains noted."),
    Str("Pt improves.\n\nPOC\nROM gains noted.") }

\* The contents of the POC section: one line; a second block after a blank
\* line; nothing.
ParserPocs ==
  { Str("PT POC: Continue TherEx."),
    Str("PT POC: Continue TherEx.\n\nThank you."),
    <<>> }

\* What follows the POC section: nothing, or white space.
ParserAfters == {<<>>, Str("\n \n")}

\* The texts given to the parser, by their parts.
ParserInputs ==
  [ before : ParserBefores, header1 : ParserHeaders1, subjective : ParserSubjectives,
    gap1 : ParserGaps, header2 : ParserHeaders2, summary : ParserSummaries,
    gap2 : {Str("\n\n"), Str("\n")}, poc : ParserPocs, after : ParserAfters ]

\* The text of an input.
ParserText(input) ==
  input.before \o input.header1 \o input.subjective \o input.gap1 \o input.header2 \o
  input.summary \o input.gap2 \o Str("POC\n") \o input.poc \o input.after

ParserInit ==
  /\ Started(Requests)
  /\ \E input \in ParserInputs :
       probe = [input |-> input, text |-> ParserText(input), called |-> FALSE, sections |-> Null]

CallSplitSections ==
  /\ ~probe.called
  /\ probe' = [probe EXCEPT !.called = TRUE, !.sections = splitSections(probe.text)]
  /\ UNCHANGED <<patientMemory, req, calls, replies, res, fmtChecks, contentChecks, compiles,
                 started>>

ParserNext == CallSplitSections

ParserSpec == ParserInit /\ [][ParserNext]_vars

(***************************************************************************)
(* The topic detector called on its own                                    *)
(***************************************************************************)

\* How many times a text is added to the instruction.
MaxExtensions == 2

\* The instructions the detector is first called with: empty; white space
\* only; keywords separated by a tab, by several blanks, followed by a line
\* break; a keyword that is matched with its punctuation only; keywords of
\* two topics that share a word.
TopicOriginals ==
  { <<>>,
    Str("  \r\n\t "),
    Str("neck\tpain"),
    Str(" Pt has  neck \t pain, LBP\r\n"),
    Str("did MT"),
    Str("GH mobs; forward head"),
    Str("hypomobile  patella"),
    Str("antalgic gait, STS x10") }

\* The texts added to an instruction: white space, and texts with keywords.
TopicAdditions ==
  { Str(" "), Str("\n\n"), Str("\r"), Str(", then STM."), Str("Core: ") }

TopicsInit ==
  /\ Started(Requests)
  /\ \E userText \in TopicOriginals :
       probe = [userText |-> userText, n |-> 0, called |-> FALSE, topics |-> Null,
                previous |-> Null]

CallDetectVisitTopics ==
  /\ ~probe.called
  /\ probe' = [probe EXCEPT !.called = TRUE,
                            !.topics = detectVisitTopicsFromUserText(probe.userText)]
  /\ UNCHANGED <<patientMemory, req, calls, replies, res, fmtChecks, contentChecks, compiles,
                 started>>

\* The caller adds a text after or before the instruction it has had
\* examined, and keeps the flags of that instruction.
AddText(addition, atEnd) ==
  /\ probe.called
  /\ probe.n < MaxExtensions
  /\ probe' = [userText |-> IF atEnd THEN probe.userText \o addition
                                     ELSE addition \o probe.userText,
               n |-> probe.n + 1, called |-> FALSE, topics |-> Null,
               previous |-> probe.topics]
  /\ UNCHANGED <<patientMemory, req, calls, replies, res, fmtChecks, contentChecks, compiles,
                 started>>

TopicsNext ==
  \/ CallDetectVisitTopics
  \/ \E addition \in TopicAdditions, atEnd \in BOOLEAN : AddText(addition, atEnd)

TopicsSpec == TopicsInit /\ [][TopicsNext]_vars

(***************************************************************************)
(* The constraint compiler called on its own                               *)
(***************************************************************************)

\* One phrase for each flag of the detector, in the order of its fields:
\* neck, low back, shoulder, knee, manual therapy, TherAct, core, patella
\* hypomobile (a phrase that holds the knee keyword patella, as all its
\* keywords do), posture, gait.
CompilerPhrases ==
  << Str("neck pain"), Str("lbp"), Str("rotator cuff"), Str("knee oa"), Str("stm"),
     Str("theract"), Str("core"), Str("hypomobile patella"), Str("kyphosis"),
     Str("antalgic") >>

\* The instruction that mentions the phrases of S, from phrase k on.
RECURSIVE CompilerText(_, _)
CompilerText(S, k) ==
  IF k > Len(CompilerPhrases) THEN <<>>
  ELSE (IF k \in S THEN CompilerPhrases[k] \o Str(". ") ELSE <<>>) \o CompilerText(S, k + 1)

CompilerInit ==
  /\ Started(Requests)
  /\ \E S \in SUBSET (1..Len(CompilerPhrases)) :
       probe = [userText |-> CompilerText(S, 1), mentioned |-> S, called |-> FALSE,
                result |-> Null, previous |-> Null]

CallBuildPTVisitSummaryMuscleConstraints ==
  /\ ~probe.called
  /\ probe' = [probe EXCEPT !.called = TRUE,
                            !.result = buildPTVisitSummaryMuscleConstraints(probe.userText)]
  /\ UNCHANGED <<patientMemory, req, calls, replies, res, fmtChecks, contentChecks, compiles,
                 started>>

\* The caller mentions one more topic at the end of the instruction it has
\* had compiled, and keeps the result for that instruction.
MentionTopic(k) ==
  /\ probe.called
  /\ probe.previous = Null
  /\ k \notin probe.mentioned
  /\ probe' = [userText |-> probe.userText \o CompilerPhrases[k] \o Str(". "),
               mentioned |-> probe.mentioned \cup {k}, called |-> FALSE, result |-> Null,
               previous |-> probe.result]
  /\ UNCHANGED <<patientMemory, req, calls, replies, res, fmtChecks, contentChecks, compiles,
                 started>>

CompilerNext ==
  \/ CallBuildPTVisitSummaryMuscleConstraints
  \/ \E k \in 1..Len(CompilerPhrases) : MentionTopic(k)

CompilerSpec == CompilerInit /\ [][CompilerNext]_vars

(***************************************************************************)
(* The content validator called on its own                                 *)
(***************************************************************************)

\* The instructions: those that mention at most two of the phrases of the
\* compiler's instructions, and the one that mentions them all.
ContentTexts ==
  { CompilerText(S, 1) :
      S \in {T \in SUBSET (1..Len(CompilerPhrases)) :
               Cardinality(T) <= 2 \/ T = 1..Len(CompilerPhrases)} }

\* One sentence for each check of the validator, in the order of its
\* checks: shoulder, neck, low back, knee with manual therapy, patella,
\* core, low back with TherAct, posture, gait.  No sentence holds a term of
\* another check.
ContentSentences ==
  << Str("Pt performed deltoid strengthening. "),
     Str("STM to SCM. "),
     Str("STM to QL. "),
     Str("STM to IT band. "),
     Str("Patellar mobs GPM III-IV. "),
     Str("Core Activation drills. "),
     Str("Hip hinge practice. "),
     Str("Postural cues given. "),
     Str("Gait training completed. ") >>

\* The Summary that holds the sentences of S, from sentence k on.
RECURSIVE ContentSummary(_, _)
ContentSummary(S, k) ==
  IF k > Len(ContentSentences) THEN <<>>
  ELSE (IF k \in S THEN ContentSentences[k] ELSE <<>>) \o ContentSummary(S, k + 1)

\* The Summaries: those that lack at most two of the sentences, one that
\* holds none of them, and one whose terms (lat, hamstring) each belong to
\* two checks and are written in capitals.
ContentSummaries ==
  { ContentSummary(S, 1) :
      S \in {T \in SUBSET (1..Len(ContentSentences)) :
               Cardinality((1..Len(ContentSentences)) \ T) <= 2} }
  \cup { Str("Pt tolerated session."), Str("BiLATeral HAMSTRING stretch.") }

ContentInit ==
  /\ Started(Requests)
  /\ \E userText \in ContentTexts, summary \in ContentSummaries :
       probe = [userText |-> userText, summary |-> summary, called |-> FALSE,
                result |-> Null]

CallValidatePTVisitSummaryMuscleSpecificity ==
  /\ ~probe.called
  /\ probe' = [probe EXCEPT !.called = TRUE,
                 !.result = validatePTVisitSummaryMuscleSpecificity(probe.summary,
                                                                    probe.userText)]
  /\ UNCHANGED <<patientMemory, req, calls, replies, res, fmtChecks, contentChecks, compiles,
                 started>>

ContentNext == CallValidatePTVisitSummaryMuscleSpecificity

ContentSpec == ContentInit /\ [][ContentNext]_vars

(***************************************************************************)
(* The patella rule: the validator and the compiler on one instruction     *)
(***************************************************************************)

\* What the instructions say of the patella: the four keywords of the
\* flag, in various cases and spacings, and a mention of the patella that
\* is not one of them.
PatellaMentions ==
  { Str("patella hypomobile, limited mobility"),
    Str("Patellar  Hypomobile"),
    Str("hypomobile patella"),
    Str("PATELLAR MOBILITY LIMITED"),
    Str("patellar tendon pain") }

\* The instructions: a mention of the patella, followed by the phrases of
\* any of the topics neck, manual therapy and core.
PatellaTexts ==
  { mention \o Str(". ") \o CompilerText(S, 1) :
      mention \in PatellaMentions, S \in SUBSET {1, 5, 7} }

\* The Summaries: the grade with and without hyphen, in lower case, with no
\* white space and with several white spaces after GPM, in Arabic numerals,
\* with blanks around the hyphen; and Summaries that meet the requirements
\* of the other topics, with the grade in Roman and in Arabic numerals.
PatellaSummaries ==
  { Str("Patellar mobs GPM III-IV performed."),
    Str("Patellar mobs gpm iiiiv performed."),
    Str("Patellar mobs GPMIII-IV performed."),
    Str("Patellar mobs GPM \tIII-IV performed."),
    Str("Patellar mobs GPM 3-4 performed."),
    Str("Patellar mobs GPM III - IV performed."),
    Str("STM to SCM and IT band, core activation, GPM III-IV mobs."),
    Str("STM to SCM and IT band, core activation, GPM 3-4 mobs.") }

PatellaInit ==
  /\ Started(Requests)
  /\ \E userText \in PatellaTexts, summary \in PatellaSummaries :
       probe = [userText |-> userText, summary |-> summary, validated |-> FALSE,
                result |-> Null, compiled |-> FALSE, constraints |-> Null]

ValidateSummary ==
  /\ ~probe.validated
  /\ probe' = [probe EXCEPT !.validated = TRUE,
                 !.result = validatePTVisitSummaryMuscleSpecificity(probe.summary,
                                                                    probe.userText)]
  /\ UNCHANGED <<patientMemory, req, calls, replies, res, fmtChecks, contentChecks, compiles,
                 started>>

CompileConstraints ==
  /\ ~probe.compiled
  /\ probe' = [probe EXCEPT !.compiled = TRUE,
                 !.constraints = buildPTVisitSummaryMuscleConstraints(probe.userText)]
  /\ UNCHANGED <<patientMemory, req, calls, replies, res, fmtChecks, contentChecks, compiles,
                 started>>

PatellaNext == ValidateSummary \/ CompileConstraints

PatellaSpec == PatellaInit /\ [][PatellaNext]_vars

(***************************************************************************)
(* The directives and the checks: the compiler and the validator on one    *)
(* instruction, rule by rule                                               *)
(***************************************************************************)

\* For each directive of the compiler, in the order it pushes them (neck,
\* low back, low back with TherAct, core, shoulder, knee, patella, posture,
\* gait, manual therapy), the place of the check for the same subject in
\* the validator; the validator has no check about manual therapy alone.
CheckOfDirective == <<2, 3, 7, 6, 1, 4, 5, 8, 9, 0>>

\* The Summary that meets every check but the one of the given directive.
SummaryLacking(rule) ==
  ContentSummary((1..Len(ContentSentences)) \ {CheckOfDirective[rule]}, 1)

ParallelInit ==
  /\ Started(Requests)
  /\ \E userText \in ContentTexts, rule \in 1..Len(CheckOfDirective) :
       probe = [userText |-> userText, rule |-> rule, summary |-> SummaryLacking(rule),
                validated |-> FALSE, result |-> Null, compiled |-> FALSE,
                constraints |-> Null]

ParallelNext == ValidateSummary \/ CompileConstraints

ParallelSpec == ParallelInit /\ [][ParallelNext]_vars

(***************************************************************************)
(* The content validator and, when it fails, the compiler, as the handler  *)
(* of POST /generate calls them                                            *)
(***************************************************************************)

\* The instructions: every combination of the phrases of the compiler's
\* instructions.
DirectiveTexts == { CompilerText(S, 1) : S \in SUBSET (1..Len(CompilerPhrases)) }

DirectiveInit ==
  /\ Started(Requests)
  /\ \E userText \in DirectiveTexts, rule \in 1..Len(CheckOfDirective) :
       probe = [userText |-> userText, rule |-> rule, summary |-> SummaryLacking(rule),
                called |-> FALSE, result |-> Null, constraints |-> Null]

\* Lines 926-929: the validator runs, and the compiler runs when it failed.
ValidateThenCompile ==
  /\ ~probe.called
  /\ LET Failed(vMuscle) ==
           probe' = [probe EXCEPT !.called = TRUE, !.result = vMuscle,
                       !.constraints = IF ~vMuscle.ok
                                       THEN buildPTVisitSummaryMuscleConstraints(probe.userText)
                                       ELSE Null]
     IN  Failed(validatePTVisitSummaryMuscleSpecificity(probe.summary, probe.userText))
  /\ UNCHANGED <<patientMemory, req, calls, replies, res, fmtChecks, contentChecks, compiles,
                 started>>

DirectiveNext == ValidateThenCompile

DirectiveSpec == DirectiveInit /\ [][DirectiveNext]_vars

(***************************************************************************)
(* Deterministic merge of an extracted patch into a form                   *)
(***************************************************************************)

\* null and undefined as the value of a field; a form or a patch is a
\* function from its keys to strings or Nullish.
Nullish == <<"NULLISH">>

\* The character U+2014.
EmDash == "EMDASH"

\* obj[k], undefined when obj has no key k.
Get(obj, k) == IF k \in DOMAIN obj THEN obj[k] ELSE Nullish

\* obj after obj[k] = v.
Put(obj, k, v) == [x \in DOMAIN obj \cup {k} |-> IF x = k THEN v ELSE obj[x]]

\* String(v ?? "").trim()
toCleanString(v) == IF v = Nullish THEN <<>> ELSE trim(v)

\* v == null || String(v).trim() === ""
isBlank(v) == v = Nullish \/ trim(v) = <<>>

PlaceholderWords ==
  {Str("n/a"), Str("na"), Str("none"), Str("tbd"), Str("unknown"), Str("-"), <<EmDash>>}

\* A variant that takes every text that starts with a placeholder word for
\* a placeholder.
looksLikePlaceholderByPrefix(v) ==
  LET s == toLowerCase(toCleanString(v))
  IN  s = <<>> \/ \E word \in PlaceholderWords : startsWith(s, word)

\* String(v || "").trim().toLowerCase() is empty or a placeholder word.
looksLikePlaceholder(v) ==
  LET s == toLowerCase(toCleanString(v))
  IN  s = <<>> \/ s \in PlaceholderWords

\* /\b\d+(\.\d+)?\b/.test(t)
hasNumber(t) ==
  \E i \in 1..Len(t) : \E j \in i..Len(t) :
    /\ WordBoundary(t, i)
    /\ \A k \in i..j : IsDigit(t[k])
    /\ \/ WordBoundary(t, j + 1)
       \/ /\ At(t, j + 1) = "."
          /\ \E m \in (j + 2)..Len(t) :
               (\A k \in (j + 2)..m : IsDigit(t[k])) /\ WordBoundary(t, m + 1)

ClinicalTerms ==
  << Str("rom"), Str("mmt"), Str("ttp"), Str("cga"), Str("sba"), Str("min a"), Str("mod a"),
     Str("max a"), Str("wnl"), Str("hypomobile"), Str("trendelenburg"), Str("aox"), Str("hep") >>

\* /\b(ROM|MMT|TTP|CGA|SBA|min A|mod A|max A|WNL|hypomobile|Trendelenburg|AOx|HEP)\b/i.test(t)
hasClinicalTerm(text) ==
  LET t == toLowerCase(text)
  IN  \E i \in 1..Len(t) : \E w \in 1..Len(ClinicalTerms) :
         /\ MatchAt(t, i, ClinicalTerms[w])
         /\ WordBoundary(t, i)
         /\ WordBoundary(t, i + Len(ClinicalTerms[w]))

incomingLooksRicher(incoming, existing) ==
  \/ Len(incoming) >= Len(existing) + 12
  \/ hasNumber(incoming)
  \/ hasClinicalTerm(incoming)

\* One turn of the loop of applyMerge, for the key k.
mergeKey(out, patch, mergeMode, k) ==
  LET incoming == toCleanString(Get(patch, k))
      existing == toCleanString(Get(out, k))
      empty == isBlank(existing) \/ looksLikePlaceholder(existing)
      replaces == CASE mergeMode = "overwrite" -> TRUE
                    [] mergeMode = "fill_empty" -> empty
                    [] OTHER -> empty \/ incomingLooksRicher(incoming, existing)
  IN  IF k \notin DOMAIN patch \/ incoming = <<>> THEN out
      ELSE IF replaces THEN Put(out, k, incoming)
      ELSE out

\* The loop of applyMerge from the i-th allowed key on.
RECURSIVE mergeKeys(_, _, _, _, _)
mergeKeys(out, patch, mergeMode, allowedKeys, i) ==
  IF i > Len(allowedKeys) THEN out
  ELSE mergeKeys(mergeKey(out, patch, mergeMode, allowedKeys[i]), patch, mergeMode,
                 allowedKeys, i + 1)

applyMerge(base, patch, mergeMode, allowedKeys) == mergeKeys(base, patch, mergeMode, allowedKeys, 1)

\* The keys of obj among the allowed keys, in their order.
RECURSIVE keysInOrder(_, _, _)
keysInOrder(obj, allowedKeys, i) ==
  IF i > Len(allowedKeys) THEN <<>>
  ELSE (IF allowedKeys[i] \in DOMAIN obj THEN <<allowedKeys[i]>> ELSE <<>>) \o
       keysInOrder(obj, allowedKeys, i + 1)

\* The keys that stripPatchToAllowedKeys keeps.
keptKeys(patch, allowedKeys) ==
  {allowedKeys[i] : i \in {j \in 1..Len(allowedKeys) :
                             /\ allowedKeys[j] \in DOMAIN patch
                             /\ toCleanString(patch[allowedKeys[j]]) # <<>>}}

\* A variant that keeps every key of the patch.
stripPatchToAnyKeys(patch, allowedKeys) ==
  [k \in {x \in DOMAIN patch : toCleanString(patch[x]) # <<>>} |-> toCleanString(patch[k])]

\* A patch that is not an object has no key at all.
stripPatchToAllowedKeys(patch, allowedKeys) ==
  [k \in keptKeys(patch, allowedKeys) |-> toCleanString(patch[k])]

(***************************************************************************)
(* applyMerge called on its own                                            *)
(***************************************************************************)

\* A field that an object does not have.
Absent == <<"ABSENT">>

\* The object with the given values of three fields, without the absent ones.
MergeObject(meddiag, history, notes) ==
  LET values == [meddiag |-> meddiag, history |-> history, notes |-> notes]
  IN  [k \in {x \in DOMAIN values : values[x] # Absent} |-> values[k]]

\* The values of the field meddiag of the form: none; null; empty;
\* placeholders in capitals, with blanks, the dash; texts; a text that
\* starts like a placeholder.
MergeBaseValues ==
  { Absent, Nullish, <<>>, Str("N/A"), Str(" tbd "), <<EmDash>>, Str("LBP x2 wks"),
    Str(" Neck pain "), Str("nah") }

\* The values of the field meddiag of the patch: none; null; white space;
\* a short text; a text twelve characters longer than those of the form; a
\* text with a clinical term; a text with a number.
MergePatchValues ==
  { Absent, Nullish, Str(" \t"), Str("Neck pain"), Str("  Chronic LBP with radicular sx  "),
    Str("ROM WNL"), Str("Pain 5/10") }

MergeModes == {"overwrite", "fill_empty", "smart", "other"}

MergeAllowedKeys == {<<>>, <<"meddiag">>, <<"history", "meddiag">>}

MergeInputs ==
  { [ base |-> MergeObject(b, Str("HTN"), Str("keep")),
      patch |-> MergeObject(p, h, n),
      mergeMode |-> mode,
      allowedKeys |-> keys ] :
    b \in MergeBaseValues, p \in MergePatchValues, h \in {Absent, Str("DM2")},
    n \in {Absent, Str("changed")}, mode \in MergeModes, keys \in MergeAllowedKeys }

MergeInit ==
  /\ Started(Requests)
  /\ \E input \in MergeInputs : probe = [input |-> input, called |-> FALSE, merged |-> input.base]

CallApplyMerge ==
  /\ ~probe.called
  /\ probe' = [probe EXCEPT !.called = TRUE,
                 !.merged = applyMerge(probe.input.base, probe.input.patch,
                                       probe.input.mergeMode, probe.input.allowedKeys)]
  /\ UNCHANGED <<patientMemory, req, calls, replies, res, fmtChecks, contentChecks, compiles,
                 started>>

MergeNext == CallApplyMerge

MergeSpec == MergeInit /\ [][MergeNext]_vars

(***************************************************************************)
(* POST /eval/extract                                                      *)
(***************************************************************************)

\* An object without keys.
EmptyObject == [k \in {} |-> <<>>]

\* A value that is not an object (a missing field, a string, a number).
NotAnObject == [notAnObject |-> <<>>]

IsObject(v) == "notAnObject" \notin DOMAIN v

\* { ...a, ...b }
Spread(a, b) == [k \in DOMAIN a \cup DOMAIN b |-> IF k \in DOMAIN b THEN b[k] ELSE a[k]]

\* /\b(Pt|Patient|Therapist|PT|OT)\s*:/i.test(s)
hasSpeaker(text) ==
  LET t == toLowerCase(text)
      Speakers == {Str("pt"), Str("patient"), Str("therapist"), Str("ot")}
  IN  \E i \in 1..Len(t) : \E speaker \in Speakers :
         /\ MatchAt(t, i, speaker)
         /\ WordBoundary(t, i)
         /\ LET j == i + Len(speaker)
                after == IF IsSpace(At(t, j)) THEN SpaceRunEnd(t, j) + 1 ELSE j
            IN  At(t, after) = ":"

normalizeTranscriptForExtraction(transcript) ==
  LET Labelled(s) ==
        IF s = <<>> THEN <<>>
        ELSE IF hasSpeaker(s) THEN s
        ELSE Str("Transcript:\n") \o s
  IN  Labelled(normalizeSpaces(transcript))

\* Three of the allowed keys of the handler (lines 1031-1079), in their order.
ExtractAllowedKeys == <<"meddiag", "history", "rom">>

\* A variant of the gate that asks for one character of evidence.
gatePatchByAnyEvidence(rawPatch, evidence) ==
  [k \in {x \in DOMAIN rawPatch : Len(toCleanString(Get(evidence, x))) >= 1} |-> rawPatch[k]]

\* Lines 1148-1154: the fields of rawPatch whose evidence has at least
\* eight characters after trimming.
gatePatchByEvidence(rawPatch, evidence) ==
  [k \in {x \in DOMAIN rawPatch : Len(toCleanString(Get(evidence, x))) >= 8} |-> rawPatch[k]]

\* Lines 1163-1168: the allowed keys whose trimmed value is not empty and
\* differs from that of the base form.
changedFields(baseForm, merged, allowedKeys) ==
  [k \in {allowedKeys[i] : i \in {j \in 1..Len(allowedKeys) :
            /\ toCleanString(Get(merged, allowedKeys[j])) # <<>>
            /\ toCleanString(Get(merged, allowedKeys[j])) #
                 toCleanString(Get(baseForm, allowedKeys[j]))}} |->
     toCleanString(Get(merged, k))]

\* The request bodies: with and without a transcript, with a speaker label
\* and without; the merge modes; a form with a placeholder and a filled
\* field, a form with an empty and a filled field, a form with a filled
\* field, no form; with and without template.
ExtractBodies ==
  { [ transcript |-> transcript, mergeMode |-> mergeMode, currentForm |-> currentForm,
      useTemplateDefaults |-> defaults, templateName |-> templateName ] :
    transcript \in {Str(" \r\n"), Str("Pt:  R knee pain x2 wks"), Str("knee pain")},
    mergeMode \in {"", "overwrite", "smart"},
    currentForm \in { NotAnObject,
                      [meddiag |-> Str("N/A"), history |-> Str("HTN")],
                      [meddiag |-> <<>>, history |-> Str("HTN")],
                      [meddiag |-> Str("Knee OA"), notes |-> Str("keep")] },
    defaults \in BOOLEAN,
    templateName \in {<<>>, Str("knee")} }

\* What the template module (templates.js, not part of the sources) may
\* hold under a template name, mapped to the keys of the form: nothing, or
\* a baseline.
ExtractTemplateBaselines ==
  {EmptyObject, [meddiag |-> Str("Knee pain"), rom |-> Str("WNL")]}

\* The evidence objects of the replies: none for meddiag; of five
\* characters; of six characters between blanks; of eight characters; a
\* quote; with and without a quote for history; for a key that is not
\* allowed.
ExtractEvidence ==
  { MergeObject(m, h, n) :
      m \in {Absent, Str("short"), Str("  knee 7  "), Str("kneepain"), Str("Pt reports R knee pain")},
      h \in {Absent, Str("hx of DM2 reported")},
      n \in {Str("Pt says more")} }

\* What the oracle may answer, as safeJsonParse reads it: no JSON object; an
\* object without patch; a patch with texts for two allowed keys and for a
\* key that is not allowed and a blank text for a third allowed key, with
\* the evidence objects above, or with an array for evidence.
ExtractReplies ==
  { [isObject |-> FALSE, patch |-> NotAnObject, evidence |-> NotAnObject],
    [isObject |-> TRUE, patch |-> NotAnObject, evidence |-> NotAnObject] }
  \cup
  { [ isObject |-> TRUE,
      patch |-> [meddiag |-> Str(" R knee OA "), history |-> Str("DM2"), rom |-> Str("  "),
                 notes |-> Str("changed")],
      evidence |-> evidence ] : evidence \in ExtractEvidence \cup {NotAnObject} }

\* The handler before a request: no response yet.
ExtractIdle ==
  [ pc |-> "idle", body |-> EmptyObject, transcript |-> <<>>, mergeMode |-> "",
    useTemplateDefaults |-> FALSE, templateBaseline |-> EmptyObject,
    baseForm |-> EmptyObject, calls |-> <<>>,
    reply |-> NotAnObject, res |-> <<>> ]

ExtractInit == Started(Requests) /\ probe = ExtractIdle

\* Lines 1017-1132: the handler from its start to the await.
ReceiveExtract ==
  /\ probe.pc = "idle"
  /\ \E body \in ExtractBodies :
       LET transcript == normalizeTranscriptForExtraction(body.transcript)
           mergeMode == IF body.mergeMode = "" THEN "fill_empty" ELSE body.mergeMode
           currentForm == IF IsObject(body.currentForm) THEN body.currentForm ELSE EmptyObject
           Await(templateBaseline, baseForm) ==
             probe' = [probe EXCEPT
                         !.pc = "extract", !.body = body, !.transcript = transcript,
                         !.mergeMode = mergeMode,
                         !.useTemplateDefaults = body.useTemplateDefaults,
                         !.templateBaseline = templateBaseline,
                         !.baseForm = baseForm,
                         !.calls = <<[ temperature |-> "0.1",
                                       user |-> [ discipline |-> "PT", mergeMode |-> mergeMode,
                                                  allowedKeys |-> ExtractAllowedKeys,
                                                  templateName |-> body.templateName,
                                                  currentForm |-> baseForm,
                                                  transcript |-> transcript ] ]>>]
       IN  IF trim(transcript) = <<>>
           THEN probe' = [probe EXCEPT
                            !.pc = "done", !.body = body,
                            !.res = <<[status |-> 400,
                                       body |-> [error |-> Str("transcript is required.")]]>>]
           ELSE \E templateBaseline \in
                     IF trim(body.templateName) # <<>> THEN ExtractTemplateBaselines
                     ELSE {EmptyObject} :
                  Await(templateBaseline,
                        IF body.useTemplateDefaults THEN Spread(templateBaseline, currentForm)
                        ELSE currentForm)
  /\ UNCHANGED <<patientMemory, req, calls, replies, res, fmtChecks, contentChecks, compiles,
                 started>>

\* Lines 1134-1199: the oracle call returns.
ExtractReturns ==
  /\ probe.pc = "extract"
  /\ \E reply \in ExtractReplies :
       LET rawPatch == stripPatchToAllowedKeys(reply.patch, ExtractAllowedKeys)
           evidence == IF IsObject(reply.evidence) THEN reply.evidence ELSE EmptyObject
           gatedPatch == gatePatchByEvidence(rawPatch, evidence)
           merged == applyMerge(probe.baseForm, gatedPatch, probe.mergeMode, ExtractAllowedKeys)
           patchOut == changedFields(probe.baseForm, merged, ExtractAllowedKeys)
           Meta(changedKeys) ==
             [ mergeMode |-> probe.mergeMode,
               useTemplateDefaults |-> probe.useTemplateDefaults,
               extractedKeys |-> keysInOrder(rawPatch, ExtractAllowedKeys, 1),
               gatedKeys |-> keysInOrder(gatedPatch, ExtractAllowedKeys, 1),
               changedKeys |-> changedKeys ]
           Answer(status, body) ==
             probe' = [probe EXCEPT !.pc = "done", !.reply = reply,
                                    !.res = <<[status |-> status, body |-> body]>>]
       IN  IF ~reply.isObject
           THEN Answer(422, [error |-> Str("Model did not return valid JSON.")])
           ELSE IF DOMAIN patchOut = {}
           THEN Answer(200, [ patch |-> EmptyObject, evidence |-> EmptyObject,
                              debug |-> << Str("EMPTY_PATCH: no allowed fields populated from transcript after evidence gating"),
                                           Str("useTemplateDefaults=") \o
                                             (IF probe.useTemplateDefaults THEN Str("true")
                                              ELSE Str("false")) >>,
                              meta |-> Meta(<<>>) ])
           ELSE Answer(200, [ patch |-> patchOut, evidence |-> evidence, debug |-> <<>>,
                              meta |-> Meta(keysInOrder(patchOut, ExtractAllowedKeys, 1)) ])
  /\ UNCHANGED <<patientMemory, req, calls, replies, res, fmtChecks, contentChecks, compiles,
                 started>>

\* Lines 1200-1207: the awaited oracle call throws.
ExtractFails ==
  /\ probe.pc = "extract"
  /\ \E message \in OracleErrors :
       probe' = [probe EXCEPT !.pc = "done",
                   !.res = <<[status |-> 500,
                              body |-> [error |-> Str("Eval extract failed."),
                                        details |-> message]]>>]
  /\ UNCHANGED <<patientMemory, req, calls, replies, res, fmtChecks, contentChecks, compiles,
                 started>>

ExtractNext == ReceiveExtract \/ ExtractReturns \/ ExtractFails

ExtractSpec == ExtractInit /\ [][ExtractNext]_vars

(***************************************************************************)
(* Properties of POST /generate                                            *)
(***************************************************************************)

\* The responses request r has sent with the given status.
Answers(r, status) == {res[r][i] : i \in {j \in 1..Len(res[r]) : res[r][j].status = status}}

\* The stages of the oracle calls of request r, in order.
StagesOf(r) == [k \in 1..Len(calls[r]) |-> calls[r][k].stage]

\* The oracle has answered every call request r has made, the last of
\* which is of the given stage.
Answered(r, stage) ==
  /\ calls[r] # <<>>
  /\ Last(calls[r]).stage = stage
  /\ Len(replies[r]) = Len(calls[r])

\* The content validator accepts the Summary of the note for the userText.
ContentOk(note, userText) ==
  LET Parsed(sections) ==
        sections # Null /\ validatePTVisitSummaryMuscleSpecificity(sections.summary, userText).ok
  IN  Parsed(splitSections(note))

\* C1: every 200 response of a request carries a text on which
\* validateGenerated, run with the intro prefix, closing sentence, POC
\* opener and discipline of that request, returned ok during the request.
C1_PublishedNotePassedFormat ==
  \A r \in Requests : \A a \in Answers(r, 200) :
    /\ \E k \in 1..Len(fmtChecks[r]) :
          fmtChecks[r][k].text = a.body.summary /\ fmtChecks[r][k].result.ok
    /\ validateGenerated(a.body.summary, req[r].introPrefix, req[r].closerSentence,
                         req[r].pocOpener, req[r].discipline) = Ok

\* The content-repair call of a request with three oracle calls returned no
\* text and the previous note was published.
C1_Witness ==
  \E r \in Requests :
    /\ Answers(r, 200) # {}
    /\ Len(calls[r]) = 3
    /\ Answered(r, "repair2")
    /\ Last(replies[r]) = <<>>

\* C2: a request makes at most three oracle calls: the draft call, then at
\* most one format-repair call, then at most one content-repair call; no
\* stage occurs twice.
C2_AtMostThreeCalls ==
  \A r \in Requests :
    StagesOf(r) \in { <<>>, <<"draft">>, <<"draft", "repair">>, <<"draft", "repair2">>,
                      <<"draft", "repair", "repair2">> }

\* A request is over after its three oracle calls.
C2_Witness ==
  \E r \in Requests : req[r].pc = "done" /\ StagesOf(r) = <<"draft", "repair", "repair2">>

\* C3 as stated: a 422 is sent only after the format validator failed on
\* the draft and on the output of the format repair, and never once the
\* content validator has been reached.
C3_Original ==
  \A r \in Requests : \A a \in Answers(r, 422) :
    /\ StagesOf(r) = <<"draft", "repair">>
    /\ Len(fmtChecks[r]) = 2
    /\ ~fmtChecks[r][1].result.ok
    /\ ~fmtChecks[r][2].result.ok
    /\ contentChecks[r] = <<>>

\* C3, amended: a 422 is sent only when the last run of the format
\* validator failed, and that run was on the output of a repair call:
\* either the format repair, after the draft had failed too and the content
\* validator was never reached, or the content repair, after the format had
\* passed and the content validator had failed once. A failure of the
\* content validator alone never ends a request in 422.
C3_OnlyFormatFailureIsTerminal ==
  \A r \in Requests : \A a \in Answers(r, 422) :
    /\ Len(fmtChecks[r]) >= 2
    /\ ~Last(fmtChecks[r]).result.ok
    /\ Len(fmtChecks[r]) = Len(replies[r])
    /\ \/ /\ Answered(r, "repair")
          /\ Len(fmtChecks[r]) = 2
          /\ ~fmtChecks[r][1].result.ok
          /\ contentChecks[r] = <<>>
       \/ /\ Answered(r, "repair2")
          /\ fmtChecks[r][Len(fmtChecks[r]) - 1].result.ok
          /\ Len(contentChecks[r]) = 1
          /\ ~contentChecks[r][1].result.ok

\* A request ends in 422 after its content-repair call, the draft having
\* passed the format validator.
C3_Witness ==
  \E r \in Requests :
    /\ Answers(r, 422) # {}
    /\ StagesOf(r) = <<"draft", "repair2">>
    /\ fmtChecks[r][1].result.ok

\* C4: when the format validator fails on the draft, the second oracle
\* call is the only format-repair call and its prompt has no block of extra
\* constraints; the validator is run again on the normalized output of that
\* call, and when it fails again the request ends with one 422 whose body
\* carries the reason of the first failure, the reason of the second, and
\* as raw text the normalized output of the repair call.
C4_FormatRepairPass ==
  \A r \in Requests :
    (fmtChecks[r] # <<>> /\ ~fmtChecks[r][1].result.ok) =>
      /\ Len(calls[r]) >= 2
      /\ calls[r][2].stage = "repair"
      /\ \A k \in 1..Len(calls[r]) : calls[r][k].stage = "repair" => k = 2
      /\ ~includes(calls[r][2].prompt, Str("EXTRA Summary constraints"))
      /\ Len(replies[r]) >= 2 =>
           /\ Len(fmtChecks[r]) >= 2
           /\ fmtChecks[r][2].text = normalizeNewlines(replies[r][2])
           /\ ~fmtChecks[r][2].result.ok =>
                res[r] = << [ status |-> 422,
                              body |-> [ error |-> Str("Model output failed validation after repair."),
                                         reason1 |-> fmtChecks[r][1].result.reason,
                                         reason2 |-> fmtChecks[r][2].result.reason,
                                         raw |-> normalizeNewlines(replies[r][2]) ] ] >>

\* A 422 after the format repair whose two reasons differ and whose raw
\* text is not the draft.
C4_Witness ==
  \E r \in Requests : \E a \in Answers(r, 422) :
    /\ Answered(r, "repair")
    /\ a.body.reason1 # a.body.reason2
    /\ a.body.raw # fmtChecks[r][1].text
    /\ a.body.raw # <<>>

\* C5: for PT, the output of the content-repair call goes through the
\* format validator before the content validator runs again; when the
\* format validator rejects it the content validator is not run again, the
\* request ends with one 422 and no note is sent with 200.
C5_ContentRepairFormatFirst ==
  \A r \in Requests :
    Answered(r, "repair2") =>
      /\ req[r].discipline = "PT"
      /\ Len(fmtChecks[r]) = Len(calls[r])
      /\ Last(fmtChecks[r]).text =
           normalizeNewlines(OrElse(Last(replies[r]), fmtChecks[r][Len(fmtChecks[r]) - 1].text))
      /\ IF Last(fmtChecks[r]).result.ok
         THEN Len(contentChecks[r]) = 2
         ELSE /\ Len(contentChecks[r]) = 1
              /\ Len(res[r]) = 1
              /\ res[r][1].status = 422
              /\ Answers(r, 200) = {}

\* The content repair of a request with three oracle calls broke the
\* format and the request ended in 422.
C5_Witness ==
  \E r \in Requests :
    /\ Answered(r, "repair2")
    /\ Len(calls[r]) = 3
    /\ ~Last(fmtChecks[r]).result.ok
    /\ Answers(r, 422) # {}

\* C6 as stated: the body of every 422 has two failure reasons and the raw
\* text.
C6_Original ==
  \A r \in Requests : \A a \in Answers(r, 422) :
    {"reason1", "reason2", "raw"} \subseteq DOMAIN a.body

\* C6, amended: the body of every 422 has, as raw, the normalized text the
\* format validator rejected last; the 422 sent after the format repair has
\* the two failure reasons of the format validator, reason1 and reason2,
\* and the 422 sent after the content repair has a single reason, that of
\* the format validator on the content-repair output.
C6_BodyOf422 ==
  \A r \in Requests : \A a \in Answers(r, 422) :
    /\ a.body.raw = Last(fmtChecks[r]).text
    /\ Answered(r, "repair") =>
         /\ DOMAIN a.body = {"error", "reason1", "reason2", "raw"}
         /\ a.body.reason1 = fmtChecks[r][1].result.reason
         /\ a.body.reason2 = fmtChecks[r][2].result.reason
    /\ Answered(r, "repair2") =>
         /\ DOMAIN a.body = {"error", "reason", "raw"}
         /\ a.body.reason = Last(fmtChecks[r]).result.reason
    /\ Answered(r, "repair") \/ Answered(r, "repair2")

\* A 422 with a single reason.
C6_Witness ==
  \E r \in Requests : \E a \in Answers(r, 422) :
    "reason" \in DOMAIN a.body /\ "reason1" \notin DOMAIN a.body

\* C7: for PT, once the output of the content repair has passed the format
\* validator the request ends with one 200 that carries that output,
\* whether or not the content validator accepts it; when it does not, the
\* debug field names the reason of the first content check as
\* muscleRuleFail and the reason of the second as muscleRuleStillFail.
C7_ContentRepairIsPublished ==
  \A r \in Requests :
    (Answered(r, "repair2") /\ Last(fmtChecks[r]).result.ok) =>
      /\ Len(res[r]) = 1
      /\ res[r][1].status = 200
      /\ res[r][1].body.summary = Last(fmtChecks[r]).text
      /\ Len(contentChecks[r]) = 2
      /\ ~contentChecks[r][2].result.ok =>
           /\ "debug" \in DOMAIN res[r][1].body
           /\ res[r][1].body.debug =
                [ muscleRuleFail |-> contentChecks[r][1].result.reason,
                  muscleRuleStillFail |-> contentChecks[r][2].result.reason ]

\* A 200 whose debug field names two different reasons.
C7_Witness ==
  \E r \in Requests : \E a \in Answers(r, 200) :
    /\ "debug" \in DOMAIN a.body
    /\ a.body.debug.muscleRuleFail # a.body.debug.muscleRuleStillFail

\* C8: a 200 response has a debug field exactly when the request made a
\* content-repair call and the content validator rejects the Summary of the
\* returned text; so a PT response without debug carries a text whose
\* Summary the content validator accepts for the userText of the request.
C8_DebugIffContentStillFails ==
  \A r \in Requests : \A a \in Answers(r, 200) :
    /\ "debug" \in DOMAIN a.body <=>
         /\ \E k \in 1..Len(calls[r]) : calls[r][k].stage = "repair2"
         /\ ~ContentOk(a.body.summary, req[r].userText)
    /\ (req[r].discipline = "PT" /\ "debug" \notin DOMAIN a.body) =>
         ContentOk(a.body.summary, req[r].userText)

\* A PT request publishes the output of its content repair without debug.
C8_Witness ==
  \E r \in Requests : \E a \in Answers(r, 200) :
    /\ req[r].discipline = "PT"
    /\ Answered(r, "repair2")
    /\ DOMAIN a.body = {"summary"}

\* C9: for OT, whatever topics the userText names, the content validator
\* and the constraint compiler never run, the request makes at most the
\* draft call and the format-repair call, and a 200 response carries
\* exactly the text the format validator accepted last.
C9_OTSkipsMuscleEnforcement ==
  \A r \in Requests :
    req[r].discipline = "OT" =>
      /\ contentChecks[r] = <<>>
      /\ compiles[r] = 0
      /\ StagesOf(r) \in {<<"draft">>, <<"draft", "repair">>}
      /\ \A a \in Answers(r, 200) :
           /\ a.body = [summary |-> Last(fmtChecks[r]).text]
           /\ Last(fmtChecks[r]).result.ok

\* An OT request whose userText names the neck and LBP topics is answered
\* 200 after a format repair.
C9_Witness ==
  \E r \in Requests :
    /\ req[r].discipline = "OT"
    /\ detectVisitTopicsFromUserText(req[r].userText).neckTopic
    /\ detectVisitTopicsFromUserText(req[r].userText).lbpTopic
    /\ Answers(r, 200) # {}
    /\ StagesOf(r) = <<"draft", "repair">>

\* C10: a request whose body has no userText, or a userText of white space
\* only, is answered with one 400 and makes no oracle call.
C10_BlankUserTextIsRejected ==
  \A r \in Requests :
    ( /\ req[r].pc # "idle"
      /\ \/ "userText" \notin DOMAIN req[r].body
         \/ \A i \in 1..Len(req[r].body.userText) : IsSpace(req[r].body.userText[i]) ) =>
      /\ Len(res[r]) = 1
      /\ res[r][1].status = 400
      /\ calls[r] = <<>>

\* A request whose userText is present but of white space only is answered
\* with 400.
C10_Witness ==
  \E r \in Requests :
    /\ req[r].pc = "done"
    /\ "userText" \in DOMAIN req[r].body
    /\ req[r].body.userText # <<>>
    /\ Answers(r, 400) # {}

\* C11: a request one of whose oracle calls failed is over, has sent exactly
\* one response, the 500 whose details are the message of the failure, has
\* made no call after the failed one (the failed call is its last and has
\* no reply) and has issued no stage twice.
C11_OracleFailureIs500 ==
  \A r \in DOMAIN req :
    req[r].err # Null =>
      /\ req[r].pc = "done"
      /\ res[r] = <<[ status |-> 500,
                      body |-> [error |-> Str("Generate failed."), details |-> req[r].err] ]>>
      /\ Len(calls[r]) = Len(replies[r]) + 1
      /\ \A i, j \in 1..Len(calls[r]) : calls[r][i].stage = calls[r][j].stage => i = j

\* The content-repair call, the third call of a request, failed.
C11_Witness ==
  \E r \in DOMAIN req :
    /\ req[r].err # Null
    /\ StagesOf(r) = <<"draft", "repair", "repair2">>
    /\ Len(replies[r]) = 2

(***************************************************************************)
(* Properties of the rotation under concurrent requests                    *)
(***************************************************************************)

\* The index of the element v in the pool arr.
IndexIn(arr, v) == (CHOOSE k \in 1..Len(arr) : arr[k] = v) - 1

\* The handler of request r has made its rotation picks.
Picked(r) == req[r].introPrefix # <<>>

\* The handler of request r is suspended at an await.
InFlight(r) == req[r].pc \in {"draft", "repair", "repair2"}

\* Request b received, from each of the three pools, the element that
\* follows the one request a received, and the map stores b's indices.
PickedNext(a, b) ==
  LET Follows(arr, suffix, x, y) ==
        /\ IndexIn(arr, y) = (IndexIn(arr, x) + 1) % Len(arr)
        /\ patientMemory[rotationKey(req[b].patientLabel \o Str(suffix), arr)] = IndexIn(arr, y)
  IN  /\ Follows(SUMMARY_INTRO_PREFIXES, "::intro", req[a].introPrefix, req[b].introPrefix)
      /\ IF req[b].discipline = "OT"
         THEN /\ Follows(OT_SUMMARY_CLOSERS, "::closeOT", req[a].closerSentence, req[b].closerSentence)
              /\ Follows(OT_POC_OPENERS, "::pocOT", req[a].pocOpener, req[b].pocOpener)
         ELSE /\ Follows(SUMMARY_CLOSERS, "::closePT", req[a].closerSentence, req[b].closerSentence)
              /\ Follows(POC_OPENERS, "::pocPT", req[a].pocOpener, req[b].pocOpener)

\* C12 as stated: a lost update. Two requests for the same subject key that
\* are in flight together have received the same rotation element.
C12_Original ==
  \A a, b \in DOMAIN req :
    ( /\ a # b
      /\ InFlight(a) /\ InFlight(b)
      /\ req[a].patientLabel = req[b].patientLabel ) =>
      req[a].introPrefix = req[b].introPrefix

\* C12, amended: no update of the stored index is lost. Of two requests for
\* the same patient label and discipline that have both made their picks,
\* in flight together or not, one received from each pool the element that
\* follows the other's, and the map stores the later index.
C12_NoLostUpdate ==
  \A a, b \in DOMAIN req :
    ( /\ a # b
      /\ Picked(a) /\ Picked(b)
      /\ req[a].patientLabel = req[b].patientLabel
      /\ req[a].discipline = req[b].discipline ) =>
      PickedNext(a, b) \/ PickedNext(b, a)

\* The second request for a patient arrived while the first one was waiting
\* for the oracle, and both are waiting now.
C12_Witness ==
  \E a, b \in DOMAIN req :
    /\ a # b
    /\ InFlight(a) /\ InFlight(b)
    /\ req[a].patientLabel = req[b].patientLabel
    /\ req[a].discipline = req[b].discipline
    /\ req[a].pc = "repair"

(***************************************************************************)
(* Properties of the rotation selector                                     *)
(***************************************************************************)

\* The pool a pick draws from.
PoolOf(op, discipline) ==
  CASE op = "intro" -> SUMMARY_INTRO_PREFIXES
    [] op = "closer" -> IF discipline = "OT" THEN OT_SUMMARY_CLOSERS ELSE SUMMARY_CLOSERS
    [] op = "opener" -> IF discipline = "OT" THEN OT_POC_OPENERS ELSE POC_OPENERS
    [] op = "single" -> SinglePool

\* The subject key of a pick.
SubjectKeyOf(op, label, discipline) ==
  label \o Str("::") \o
  CASE op = "intro" -> Str("intro")
    [] op = "closer" -> Str("close") \o Str(discipline)
    [] op = "opener" -> Str("poc") \o Str(discipline)
    [] op = "single" -> Str("single")

\* The key of the rotation map under which the last pick is stored.
LastKey == rotationKey(SubjectKeyOf(probe.op, probe.label, probe.discipline),
                       PoolOf(probe.op, probe.discipline))

C14_PoolsRotateIndependently ==
  LET Follows(arr) ==
        probe.previous # <<>> =>
          IndexIn(arr, probe.value) = (IndexIn(arr, probe.previous) + 1) % Len(arr)
  IN  probe.n > 0 =>
        /\ DOMAIN probe.before \subseteq DOMAIN patientMemory
        /\ Cardinality({ key \in DOMAIN patientMemory :
                           \/ key \notin DOMAIN probe.before
                           \/ patientMemory[key] # probe.before[key] }) <= 1
        /\ \A key \in DOMAIN probe.before :
             key # LastKey => patientMemory[key] = probe.before[key]
        /\ Follows(PoolOf(probe.op, probe.discipline))

\* The OT pool of POC openers was picked from for the second time, with
\* picks of the PT pool of POC openers and of the closers before and
\* between.
C14_Witness ==
  /\ probe.op = "opener"
  /\ probe.discipline = "OT"
  /\ probe.previous # <<>>
  /\ probe.value # probe.previous
  /\ <<"opener", probe.label, "PT">> \in DOMAIN probe.last
  /\ <<"closer", probe.label, "OT">> \in DOMAIN probe.last
  /\ probe.last[<<"opener", probe.label, "PT">>] # POC_OPENERS[1]

\* C15 as stated: the index a pick stores for a key is never smaller than
\* the one the key had before the pick.
C15_Original ==
  probe.n > 0 =>
    \A key \in DOMAIN probe.before :
      key \in DOMAIN patientMemory /\ patientMemory[key] >= probe.before[key]

\* C15, amended: the index a pick stores for a key is never smaller than
\* the one the key had before, except when the pick wraps the index of its
\* pool from len(pool) - 1 to 0; no key is ever removed.
C15_MonotonicUpToWrap ==
  probe.n > 0 =>
    \A key \in DOMAIN probe.before :
      /\ key \in DOMAIN patientMemory
      /\ patientMemory[key] < probe.before[key] =>
           /\ key = LastKey
           /\ probe.before[key] = Len(PoolOf(probe.op, probe.discipline)) - 1
           /\ patientMemory[key] = 0

\* The index of the pool of PT closers wrapped from 4 to 0.
C15_Witness ==
  /\ probe.op = "closer"
  /\ probe.discipline = "PT"
  /\ LastKey \in DOMAIN probe.before
  /\ probe.before[LastKey] = Len(SUMMARY_CLOSERS) - 1
  /\ patientMemory[LastKey] = 0

(***************************************************************************)
(* Properties of the format validator                                      *)
(***************************************************************************)

\* The reasons of the battery, in its order; the last one is followed by
\* the expected and the received POC line.
FormatReasons ==
  << Str("Could not parse 3 sections (Subjective/Summary/POC) with required spacing."),
     Str("Subjective must be exactly 1 sentence."),
     Str("Subjective must start with an allowed starter."),
     Str("Subjective must not say \"tolerates tx well\"."),
     Str("Summary must be 5 to 7 sentences."),
     Str("Summary must not contain arrows (") \o <<ArrowUp, "/", ArrowDown>> \o Str(")."),
     Str("Summary must not contain bullets or numbering."),
     Str("Summary must not contain \"The patient\" or third-person pronouns. Use \"Pt\" only."),
     Str("Summary starts with a banned generic opener."),
     Str("First Summary sentence must start with required intro prefix."),
     Str("Summary must end with exact required closing sentence."),
     Str("Summary must end with required closing phrase."),
     Str("POC must be one line."),
     Str("POC must match exact template.") >>

\* Rule k of the battery (2..14) holds of the parsed sections.
RuleHolds(k, sections, input) ==
  CASE k = 2 -> countSentences(sections.subjective) = 1
    [] k = 3 -> \E i \in 1..Len(SUBJECTIVE_STARTERS) :
                  startsWith(sections.subjective, SUBJECTIVE_STARTERS[i])
    [] k = 4 -> ~toleratesTxWell(sections.subjective)
    [] k = 5 -> countSentences(sections.summary) >= 5 /\ countSentences(sections.summary) <= 7
    [] k = 6 -> ~containsArrows(sections.summary)
    [] k = 7 -> ~hasBulletsOrNumbering(sections.summary)
    [] k = 8 -> ~hasBannedThirdPersonRef(sections.summary)
    [] k = 9 -> ~hasBannedGenericSummaryStart(sections.summary)
    [] k = 10 -> startsWith(sections.summary, input.introPrefix)
    [] k = 11 -> getLastSentence(sections.summary) = input.closerSentence
    [] k = 12 -> includesExactClosingPhrase(getLastSentence(sections.summary), input.discipline)
    [] k = 13 -> isSingleLine(sections.poc)
    [] k = 14 -> sections.poc = expectedPocLine(input.pocOpener, input.discipline)

\* The rules of the battery the input violates; an input that does not
\* parse violates the first and has no sections to apply the others to.
ViolatedRules(input) ==
  LET Of(sections) ==
        IF sections = Null THEN {1}
        ELSE {k \in 2..14 : ~RuleHolds(k, sections, input)}
  IN  Of(splitSections(input.text))

\* The reason validateGenerated gives for rule k.
ReasonOfRule(k, input) ==
  IF k < 14 THEN FormatReasons[k]
  ELSE FormatReasons[14] \o Str("\nExpected: ") \o
       expectedPocLine(input.pocOpener, input.discipline) \o
       Str("\nGot: ") \o splitSections(input.text).poc

\* C16: validateGenerated returns ok exactly when the text parses and no
\* rule of the battery is violated; otherwise it returns the reason of the
\* violated rule that comes first in the order of the battery, whatever
\* later rules are violated too.
C16_FirstViolatedRule ==
  LET Expected(input, violated) ==
        IF violated = {} THEN Ok ELSE Fail(ReasonOfRule(Min(violated), input))
  IN  probe.result # Null =>
        probe.result = Expected(probe.input, ViolatedRules(probe.input))

\* A note that violates the arrow, bullet and third-person rules at once
\* and the rule of the closing sentence as well was given the reason of
\* the arrows.
C16_Witness ==
  /\ probe.result # Null
  /\ {6, 7, 8, 11} \subseteq ViolatedRules(probe.input)
  /\ probe.result = Fail(FormatReasons[6])

(***************************************************************************)
(* Properties of the section parser                                        *)
(***************************************************************************)

\* The input deviates from the three-section structure: text before the
\* first header, a missing header, a section not followed by exactly one
\* blank line, a further block (after a blank line) inside or after the
\* sections, or a section that trims to empty.
Deviates(input) ==
  \/ input.before # <<>>
  \/ input.header1 # Str("Subjective\n")
  \/ input.header2 = Str("Summery\n")
  \/ input.gap1 # Str("\n\n")
  \/ input.gap2 # Str("\n\n")
  \/ \E section \in {input.subjective, input.summary, input.poc} :
       includes(section, Str("\n\n")) \/ trim(section) = <<>>

\* The three sections of the input, trimmed.
TrimmedSections(input) ==
  [subjective |-> trim(input.subjective), summary |-> trim(input.summary), poc |-> trim(input.poc)]

\* C17: splitSections returns null for every text that deviates from the
\* three-section structure and the three trimmed sections for every other
\* text.
C17_UnparsedOnEveryDeviation ==
  probe.called =>
    probe.sections = IF Deviates(probe.input) THEN Null ELSE TrimmedSections(probe.input)

\* The text of the input is the rendering of its three sections, which
\* are trimmed and not empty, and no section holds the header of the next
\* one after a blank line.
RespectsTemplate(input) ==
  /\ ParserText(input) = render(input.subjective, input.summary, input.poc)
  /\ \A section \in {input.subjective, input.summary, input.poc} :
       section # <<>> /\ trim(section) = section
  /\ ~includes(input.subjective, Str("\n\nSummary"))
  /\ ~includes(input.summary, Str("\n\nPOC"))

\* C18: splitSections of the rendering of three trimmed, non-empty sections
\* that respect the template returns exactly these three sections.
C18_ParseOfRender ==
  (probe.called /\ RespectsTemplate(probe.input)) =>
    probe.sections = [ subjective |-> probe.input.subjective, summary |-> probe.input.summary,
                       poc |-> probe.input.poc ]

\* A rendering was parsed whose Subjective section has a line Summary and
\* whose Summary section has a block that starts with a line Summary.
C18_Witness ==
  /\ probe.called
  /\ RespectsTemplate(probe.input)
  /\ includes(probe.input.subjective, Str("\nSummary\n"))
  /\ includes(probe.input.summary, Str("\n\nSummary\n"))
  /\ probe.sections # Null

(***************************************************************************)
(* Properties of the topic detector                                        *)
(***************************************************************************)

\* The text holds nothing but white space (or nothing at all).
WhitespaceOnly(t) == \A i \in 1..Len(t) : t[i] \in {" ", "\t", "\n", "\r"}

\* The flags of the detector.
TopicFlags ==
  { "neckTopic", "lbpTopic", "shoulderTopic", "kneeTopic", "mentionsMT", "mentionsTherAct",
    "mentionsCore", "patellaHypomobile", "poorPosture", "gaitImpairment" }

\* C19: topic detection is monotone: every flag that the detector sets for
\* an instruction is still set for the instruction with a text added to it
\* (after it or before it); an empty or white-space-only instruction yields
\* all flags false.
C19_DetectionMonotone ==
  probe.called =>
    /\ probe.n > 0 => \A f \in TopicFlags : probe.previous[f] => probe.topics[f]
    /\ WhitespaceOnly(probe.userText) => \A f \in TopicFlags : ~probe.topics[f]

\* An added text has kept a flag of the instruction and set a further one.
C19_Witness ==
  /\ probe.called
  /\ probe.n > 0
  /\ \E f \in TopicFlags : probe.previous[f] /\ probe.topics[f]
  /\ \E g \in TopicFlags : ~probe.previous[g] /\ probe.topics[g]

(***************************************************************************)
(* Properties of the constraint compiler                                   *)
(***************************************************************************)

\* The fixed priority order of the directives.
PriorityOrder ==
  << NeckDirective, LbpDirective, LbpTherActDirective, CoreDirective, ShoulderDirective,
     KneeDirective, PatellaDirective, PostureDirective, GaitDirective, MTDirective >>

\* The places of the priority order that the flags select.
SelectedBy(t) ==
  LET on == << t.neckTopic, t.lbpTopic, t.lbpTopic /\ t.mentionsTherAct, t.mentionsCore,
               t.shoulderTopic, t.kneeTopic, t.patellaHypomobile, t.poorPosture,
               t.gaitImpairment, t.mentionsMT >>
  IN  {k \in 1..Len(PriorityOrder) : on[k]}

\* The subsequence of the priority order at the places of S, from place k on.
RECURSIVE DirectivesAt(_, _)
DirectivesAt(S, k) ==
  IF k > Len(PriorityOrder) THEN <<>>
  ELSE (IF k \in S THEN <<PriorityOrder[k]>> ELSE <<>>) \o DirectivesAt(S, k + 1)

\* The compiled text is the list of the directives at the places of S.
CompiledAs(result, S) == result.constraintsText = join(DirectivesAt(S, 1), Str("\n  "))

\* C20: the compiled directive list is the subsequence, selected by the
\* flags, of one fixed priority order (neck, low back, low back + TherAct,
\* core, shoulder, knee, patella hypomobile, posture, gait, manual therapy);
\* with one more topic mentioned, the places selected before are still
\* selected, so that directives are only inserted, none removed or moved.
C20_SubsequenceOfPriorityOrder ==
  probe.called =>
    /\ CompiledAs(probe.result, SelectedBy(probe.result.topics))
    /\ probe.previous # Null =>
         /\ CompiledAs(probe.previous, SelectedBy(probe.previous.topics))
         /\ SelectedBy(probe.previous.topics) \subseteq SelectedBy(probe.result.topics)

\* One more topic has inserted a directive between two that were present.
C20_Witness ==
  /\ probe.called
  /\ probe.previous # Null
  /\ LET before == SelectedBy(probe.previous.topics)
         after == SelectedBy(probe.result.topics)
     IN  \E i \in before, j \in after \ before, k \in before : i < j /\ j < k

(***************************************************************************)
(* Properties of the content validator                                     *)
(***************************************************************************)

\* The forms of the mobilization grade: GPM, white space or none, III, a
\* hyphen or none, IV, in lower case.
GpmForms ==
  { Str("gpm") \o w \o Str("iii") \o h \o Str("iv") :
      w \in {<<>>, Str(" "), Str("  "), Str("\t"), Str("\n"), Str(" \t")},
      h \in {<<>>, Str("-")} }

\* The requirements in the order of the checks: the flags that switch a
\* requirement on, the terms of which the Summary must hold one, and the
\* words by which its reason is known.
RequirementOn(k, t) ==
  CASE k = 1 -> t.shoulderTopic
    [] k = 2 -> t.neckTopic
    [] k = 3 -> t.lbpTopic
    [] k = 4 -> t.kneeTopic /\ t.mentionsMT
    [] k = 5 -> t.patellaHypomobile
    [] k = 6 -> t.mentionsCore
    [] k = 7 -> t.lbpTopic /\ t.mentionsTherAct
    [] k = 8 -> t.poorPosture
    [] k = 9 -> t.gaitImpairment

RequiredTerms ==
  << { Str("supraspinatus"), Str("deltoid"), Str("infraspinatus"), Str("teres minor"),
       Str("teres major"), Str("lat") },
     { Str("suboccip"), Str("posterior cervical"), Str("upper trap"), Str("levator"),
       Str("scm"), Str("pec minor"), Str("lat") },
     { Str("paraspinal"), Str("ql"), Str("multif"), Str("glute med"), Str("tfl"),
       Str("piriformis"), Str("hamstring") },
     { Str("it band"), Str("distal quad"), Str("popliteus"), Str("hamstring"),
       Str("gastroc") },
     GpmForms,
     { Str("core activation"), Str("abd stabil"), Str("trunk stabil"), Str("core stabil") },
     { Str("sit-to-stand"), Str("sit to stand"), Str("transfer"), Str("hip hinge"),
       Str("lifting mechanics"), Str("functional training") },
     { Str("postural"), Str("t-spine"), Str("upper back"), Str("pec minor") },
     { Str("gait training"), Str("stride"), Str("step length"), Str("reciprocal") } >>

ReasonWords ==
  << Str("shoulder topic"), Str("neck topic"), Str("LBP topic"), Str("knee + MT"),
     Str("patella hypomobile"), Str("core/abdominal"), Str("LBP + TherAct"),
     Str("posture topic"), Str("gait impairment") >>

\* The Summary holds one of the terms of requirement k, in any case.
RequirementMet(k, summary) ==
  \E term \in RequiredTerms[k] : includes(toLowerCase(summary), term)

\* The requirements that are on for the instruction and not met by the Summary.
Unmet(userText, summary) ==
  LET Of(t) == {k \in 1..Len(RequiredTerms) : RequirementOn(k, t) /\ ~RequirementMet(k, summary)}
  IN  Of(detectVisitTopicsFromUserText(userText))

\* C21: the content validator returns ok exactly when every requirement
\* that the flags switch on (one per topic flag with required terms, and
\* the composite ones when both of their flags are set) is met by one of
\* its terms in the Summary, in any case; otherwise it returns the reason
\* of the first unmet requirement in the order of its checks.
C21_FirstUnmetRequirement ==
  LET Holds(unmet) ==
        /\ probe.result.ok <=> unmet = {}
        /\ unmet # {} => includes(probe.result.reason, ReasonWords[Min(unmet)])
  IN  probe.called => Holds(Unmet(probe.userText, probe.summary))

\* Two requirements are unmet, and the reason is that of the first one.
C21_Witness ==
  /\ probe.called
  /\ ~probe.result.ok
  /\ Cardinality(Unmet(probe.userText, probe.summary)) >= 2
  /\ \E k \in 2..Len(RequiredTerms) :
       /\ k = Min(Unmet(probe.userText, probe.summary))
       /\ RequirementOn(1, detectVisitTopicsFromUserText(probe.userText))

(***************************************************************************)
(* Properties of the patella rule                                          *)
(***************************************************************************)

\* The flags of the instruction of the probe.
ProbeTopics == detectVisitTopicsFromUserText(probe.userText)

\* The instruction sets the patella flag and no flag of another check, so
\* that the validator's result is that of the patella rule.
OnlyPatella(t) ==
  /\ t.patellaHypomobile
  /\ ~(t.neckTopic \/ t.lbpTopic \/ t.shoulderTopic \/ t.mentionsMT \/ t.mentionsCore)
  /\ ~(t.poorPosture \/ t.gaitImpairment)

\* The Summary holds one of the given forms, in any case.
HoldsForm(summary, forms) == \E form \in forms : includes(toLowerCase(summary), form)

\* The statement of C22 as it was made: the rule passes only if the
\* Summary holds GPM III-IV with one blank after GPM, in any case, with or
\* without the hyphen.
C22_Original ==
  probe.validated /\ OnlyPatella(ProbeTopics) /\ probe.result.ok =>
    HoldsForm(probe.summary, {Str("gpm iii-iv"), Str("gpm iiiiv")})

\* C22 (amended): when patellaHypomobile is detected, the patella rule
\* passes only if the Summary holds GPM, any white space or none, III, an
\* optional hyphen, IV, in any case; a Summary whose only grade is written
\* GPM 3-4 fails.
C22_GpmPattern ==
  probe.validated /\ OnlyPatella(ProbeTopics) =>
    /\ probe.result.ok => HoldsForm(probe.summary, GpmForms)
    /\ includes(probe.summary, Str("GPM 3-4")) =>
         /\ ~probe.result.ok
         /\ includes(probe.result.reason, Str("patella hypomobile requires GPM III-IV"))

\* The patella rule has rejected the grade written in Arabic numerals.
C22_Witness ==
  /\ probe.validated
  /\ probe.userText = Str("patella hypomobile, limited mobility. ")
  /\ probe.summary = Str("Patellar mobs GPM 3-4 performed.")
  /\ ~probe.result.ok

\* C23: the patella requirement applies whatever the other flags are: on
\* every instruction on which patellaHypomobile is detected the knee flag
\* is set too, the validator accepts no Summary without the GPM III-IV
\* pattern, and the compiler emits the GPM III-IV directive.
C23_PatellaRegardlessOfOtherFlags ==
  ProbeTopics.patellaHypomobile =>
    /\ ProbeTopics.kneeTopic
    /\ probe.validated /\ probe.result.ok => HoldsForm(probe.summary, GpmForms)
    /\ probe.compiled => includes(probe.constraints.constraintsText, PatellaDirective)

\* With the neck and manual therapy flags set too, the validator has
\* reached the patella rule and rejected the Summary for it, and the
\* compiler has emitted the directive.
C23_Witness ==
  /\ ProbeTopics.patellaHypomobile /\ ProbeTopics.neckTopic /\ ProbeTopics.mentionsMT
  /\ probe.validated /\ probe.compiled
  /\ ~probe.result.ok
  /\ includes(probe.result.reason, Str("patella hypomobile requires GPM III-IV"))
  /\ includes(probe.constraints.constraintsText, PatellaDirective)

(***************************************************************************)
(* Properties of the content repair                                        *)
(***************************************************************************)

\* The calls of request r at the given stage.
CallsAt(r, stage) == {i \in 1..Len(calls[r]) : calls[r][i].stage = stage}

\* The Summary of a text that passed the format validator.
SummaryOf(text) == splitSections(text).summary

\* The Summary holds none of the terms of the neck requirement.
NamesNoNeckMuscle(summary) == ~RequirementMet(2, summary)

\* Request r is for PT, the neck topic is detected on its instruction, and
\* a note of it has passed the format validator with a Summary that holds
\* none of the terms of the neck requirement.
NeckNoteWithoutMuscles(r) ==
  /\ req[r].discipline = "PT"
  /\ detectVisitTopicsFromUserText(req[r].userText).neckTopic
  /\ \E i \in 1..Len(fmtChecks[r]) :
       /\ fmtChecks[r][i].result.ok
       /\ NamesNoNeckMuscle(SummaryOf(fmtChecks[r][i].text))

\* C24: for discipline PT with the neck topic detected, when the note that
\* passed the format validator names none of suboccip, posterior cervical,
\* upper trap, levator, scm, pec minor, lat in its Summary, exactly one
\* content-repair call is issued in the request, and the content validator
\* runs at most twice in a request.
C24_OneContentRepair ==
  \A r \in DOMAIN req :
    /\ NeckNoteWithoutMuscles(r) => Cardinality(CallsAt(r, "repair2")) = 1
    /\ Len(contentChecks[r]) <= 2
    /\ Cardinality(CallsAt(r, "repair2")) <= 1

\* A request has ended after its draft passed the format validator without
\* a neck muscle in its Summary: one content repair, two content checks.
C24_Witness ==
  \E r \in DOMAIN req :
    /\ req[r].pc = "done"
    /\ NeckNoteWithoutMuscles(r)
    /\ fmtChecks[r][1].result.ok
    /\ NamesNoNeckMuscle(SummaryOf(fmtChecks[r][1].text))
    /\ Cardinality(CallsAt(r, "repair2")) = 1
    /\ Len(contentChecks[r]) = 2

(***************************************************************************)
(* Properties of the format repair                                         *)
(***************************************************************************)

\* The reason of the closing-sentence rule.
ClosingSentenceReason == Str("Summary must end with exact required closing sentence.")

\* The k-th run of the format validator in request r failed on the
\* closing-sentence rule.
ViolatesClosingRule(r, k) ==
  /\ Len(fmtChecks[r]) >= k
  /\ fmtChecks[r][k].result = Fail(ClosingSentenceReason)

\* The draft of request r violated the closing-sentence rule: one
\* format-repair call has been issued, and its prompt holds the closing
\* sentence of the request.
OneRepairWithCloser(r) ==
  /\ Cardinality(CallsAt(r, "repair")) = 1
  /\ \A i \in CallsAt(r, "repair") : includes(calls[r][i].prompt, req[r].closerSentence)

\* The response of request r is the 422 of the format repair.
Answered422(r) ==
  /\ Len(res[r]) = 1
  /\ res[r][1].status = 422
  /\ DOMAIN res[r][1].body = {"error", "reason1", "reason2", "raw"}

\* The statement of C25 as it was made: the two reasons of the 422 differ.
C25_Original ==
  \A r \in DOMAIN req :
    ViolatesClosingRule(r, 1) =>
      /\ OneRepairWithCloser(r)
      /\ ViolatesClosingRule(r, 2) =>
           Answered422(r) /\ res[r][1].body.reason1 # res[r][1].body.reason2

\* C25 (amended): when the draft violates the closing-sentence rule, exactly
\* one format-repair call is issued, and its prompt holds the
\* rotation-selected closing sentence verbatim; if the repaired output
\* violates the same rule again, the response is 422 and reports two
\* reasons, reason1 for the draft and reason2 for the repaired output, both
\* the reason of the closing-sentence rule.
C25_RepairNamesCloser ==
  \A r \in DOMAIN req :
    ViolatesClosingRule(r, 1) =>
      /\ OneRepairWithCloser(r)
      /\ ViolatesClosingRule(r, 2) =>
           /\ Answered422(r)
           /\ res[r][1].body.reason1 = ClosingSentenceReason
           /\ res[r][1].body.reason2 = ClosingSentenceReason

\* The draft and the repaired output have both ended with another closing
\* sentence, and the request was answered with 422.
C25_Witness ==
  \E r \in DOMAIN req :
    /\ ViolatesClosingRule(r, 1)
    /\ ViolatesClosingRule(r, 2)
    /\ OneRepairWithCloser(r)
    /\ Answered422(r)
    /\ req[r].pc = "done"

(***************************************************************************)
(* Properties of the repair prompts                                        *)
(***************************************************************************)

\* The first line of the extra-constraints block.
ExtraBlockHeader == Str("- EXTRA Summary constraints:")

\* The prompt holds the instruction and the bad output in their places.
EmbedsInstructionAndOutput(prompt, userText, badOutput) ==
  includes(prompt, Str("User instruction:\n") \o userText \o Str("\n\nBad output:\n") \o
                   badOutput \o Str("\n\nNow output the corrected note only."))

\* The extra-constraints block for the given failure reason and flags: the
\* reason, then the directives that the flags select, in priority order.
ExpectedExtraBlock(reason, t) ==
  ExtraBlockHeader \o Str("\n  ") \o reason \o
  Str("\n  You MUST follow these topic-based content rules if applicable:\n  ") \o
  join(DirectivesAt(SelectedBy(t), 1), Str("\n  ")) \o Str("\n")

\* What call i of request r must be when it is a repair call.
RepairPromptAsClaimed(r, i) ==
  LET call == calls[r][i]
      previous == normalizeNewlines(replies[r][i - 1])
  IN  /\ call.stage \in {"repair", "repair2"} =>
           /\ EmbedsInstructionAndOutput(call.prompt, req[r].userText, previous)
           /\ includes(calls[r][1].prompt, req[r].userText)
      /\ call.stage \in {"draft", "repair"} => ~includes(call.prompt, ExtraBlockHeader)
      /\ call.stage = "repair2" =>
           includes(call.prompt,
                    ExpectedExtraBlock(contentChecks[r][1].result.reason,
                                       detectVisitTopicsFromUserText(req[r].userText)))

\* C26: every repair prompt embeds the output of the immediately preceding
\* oracle call (with its newlines normalised, as the handler keeps it) and
\* the userText of the request as the handler holds it, the same as in the
\* draft prompt; the extra-constraints block is in the content-repair
\* prompt only, where it consists of the first content validator failure
\* reason followed by the full compiled directive list; the format-repair
\* prompt never holds the block, even when topics are detected.
C26_RepairPromptContents ==
  \A r \in DOMAIN req : \A i \in 1..Len(calls[r]) : RepairPromptAsClaimed(r, i)

\* A request with topics has issued a format repair and then a content
\* repair.
C26_Witness ==
  \E r \in DOMAIN req :
    /\ detectVisitTopicsFromUserText(req[r].userText).neckTopic
    /\ Len(calls[r]) = 3
    /\ calls[r][2].stage = "repair"
    /\ calls[r][3].stage = "repair2"
    /\ replies[r][1] # replies[r][2]

(***************************************************************************)
(* Properties of the directives and the checks                             *)
(***************************************************************************)

\* C27: the directives and the token checks are parallel: on every
\* instruction the compiler emits the directive of a rule if and only if
\* the validator performs the check of that rule (it rejects the Summary
\* that meets every check but that one); in particular the knee rule
\* exists only when knee and manual therapy are both detected.
C27_DirectivesParallelChecks ==
  probe.validated /\ probe.compiled =>
    (includes(probe.constraints.constraintsText, PriorityOrder[probe.rule])
       <=> ~probe.result.ok)

(***************************************************************************)
(* Properties of the rotation picks of a request                           *)
(***************************************************************************)

\* The keys of the rotation map that a step sets: every pick sets the key
\* of its pool to an index that the key did not have.
KeysSet ==
  {k \in DOMAIN patientMemory' : k \notin DOMAIN patientMemory \/ patientMemory'[k] # patientMemory[k]}

\* Request r passes the input validation in this step: the handler runs
\* from its start to the draft call.
PassesValidation(r) == req[r].pc \in {"idle", "done"} /\ req'[r].pc = "draft"

\* The statement of C28 as it was made: four picks for every request that
\* passes the input validation.
C28_Original ==
  [][\A r \in DOMAIN req : PassesValidation(r) => Cardinality(KeysSet) = 4]_vars

\* C28 (amended): the Rotation Selector is used three times per note: every
\* POST /generate request that passes input validation performs exactly
\* three picks on the rotation map (intro prefix, closing sentence, POC
\* opener).
C28_ThreePicksPerRequest ==
  [][\A r \in DOMAIN req : PassesValidation(r) => Cardinality(KeysSet) = 3]_vars

\* A request has passed the input validation and waits for its draft; the
\* rotation map holds the three keys of its picks.
C28_Witness ==
  \E r \in DOMAIN req :
    /\ req[r].pc = "draft"
    /\ Cardinality(DOMAIN patientMemory) = 3
    /\ \A k \in DOMAIN patientMemory : startsWith(k, req[r].patientLabel \o Str("::"))

(***************************************************************************)
(* Properties of applyMerge                                                *)
(***************************************************************************)

\* The elements of a sequence of keys.
KeysOf(keys) == {keys[i] : i \in 1..Len(keys)}

\* The value is neither blank nor one of the placeholders n/a, na, none,
\* tbd, unknown, -, U+2014 (in any case, blanks around it aside).
IsFilled(v) ==
  /\ v # Nullish
  /\ trim(v) # <<>>
  /\ toLowerCase(trim(v)) \notin
       {Str("n/a"), Str("na"), Str("none"), Str("tbd"), Str("unknown"), Str("-"), <<EmDash>>}

\* The two objects agree on key k: both lack it, or both have the same value.
SameAt(a, b, k) ==
  /\ k \in DOMAIN a <=> k \in DOMAIN b
  /\ k \in DOMAIN a => a[k] = b[k]

\* The patch has no value for key k, or a blank one.
BlankIncoming(patch, k) ==
  k \notin DOMAIN patch \/ patch[k] = Nullish \/ trim(patch[k]) = <<>>

\* C29: applyMerge in fill_empty mode only fills: an allowed key whose
\* base value is neither blank nor a placeholder keeps its base value
\* whatever the patch holds; and in every merge mode the keys outside
\* allowedKeys and the allowed keys whose incoming value is blank keep
\* their base value.
C29_FillEmptyOnlyFills ==
  LET in == probe.input
      AllKeys == DOMAIN in.base \cup DOMAIN in.patch \cup DOMAIN probe.merged
  IN  probe.called =>
        /\ in.mergeMode = "fill_empty" =>
             \A k \in KeysOf(in.allowedKeys) :
               k \in DOMAIN in.base /\ IsFilled(in.base[k]) => SameAt(probe.merged, in.base, k)
        /\ \A k \in AllKeys :
             k \notin KeysOf(in.allowedKeys) \/ BlankIncoming(in.patch, k) =>
               SameAt(probe.merged, in.base, k)

\* In fill_empty mode a patch with texts for two allowed keys and for a key
\* that is not allowed has filled the placeholder and kept the filled field
\* and the other key.
C29_Witness ==
  /\ probe.called
  /\ probe.input.mergeMode = "fill_empty"
  /\ probe.input.allowedKeys = <<"history", "meddiag">>
  /\ Get(probe.input.base, "meddiag") = Str("N/A")
  /\ probe.input.patch = MergeObject(Str("ROM WNL"), Str("DM2"), Str("changed"))
  /\ probe.merged = MergeObject(Str("ROM WNL"), Str("HTN"), Str("keep"))

(***************************************************************************)
(* Properties of POST /eval/extract                                        *)
(***************************************************************************)

\* The request was answered with a patch.
ExtractAnswered == probe.pc = "done" /\ probe.res[1].status = 200

\* The model's patch has a non-empty value for key k.
HasValue(patch, k) ==
  IsObject(patch) /\ k \in DOMAIN patch /\ patch[k] # Nullish /\ trim(patch[k]) # <<>>

\* The model supplied evidence of at least 8 characters, blanks around it
\* aside, for key k.
HasEvidence(evidence, k) ==
  IsObject(evidence) /\ k \in DOMAIN evidence /\ evidence[k] # Nullish /\
  Len(trim(evidence[k])) >= 8

\* C30: a key is in the returned patch only if the model's patch had a
\* non-empty value for it, the key is an allowed key, and the model supplied
\* evidence of at least 8 characters after trimming for it; a field without
\* such evidence is dropped before the merge (it is not among the gated
\* keys) and does not change the form.
C30_EvidenceRequired ==
  ExtractAnswered =>
    /\ \A k \in DOMAIN probe.res[1].body.patch :
         /\ k \in KeysOf(ExtractAllowedKeys)
         /\ HasValue(probe.reply.patch, k)
         /\ HasEvidence(probe.reply.evidence, k)
    /\ \A k \in KeysOf(probe.res[1].body.meta.gatedKeys) : HasEvidence(probe.reply.evidence, k)
    /\ KeysOf(probe.res[1].body.meta.changedKeys) = DOMAIN probe.res[1].body.patch

\* In overwrite mode the model gave texts for meddiag and history, with six
\* characters of evidence for the first and a quote for the second: the
\* returned patch holds history only.
C30_Witness ==
  /\ ExtractAnswered
  /\ probe.mergeMode = "overwrite"
  /\ HasValue(probe.reply.patch, "meddiag")
  /\ Get(probe.reply.evidence, "meddiag") = Str("  knee 7  ")
  /\ HasEvidence(probe.reply.evidence, "history")
  /\ DOMAIN probe.res[1].body.patch = {"history"}
  /\ probe.res[1].body.meta.extractedKeys = <<"meddiag", "history">>

\* The field k is missing or blank in the form the caller sent.
BlankInCurrentForm(k) ==
  ~IsObject(probe.body.currentForm) \/ isBlank(Get(probe.body.currentForm, k))

\* C31: with useTemplateDefaults = true and an existing templateName, a field
\* that is blank in currentForm and set in the template is delivered to the
\* caller with the template's value in the response.
C31_TemplateDefaultsDelivered ==
  ExtractAnswered /\ probe.useTemplateDefaults =>
    \A k \in DOMAIN probe.templateBaseline :
       BlankInCurrentForm(k) /\ ~isBlank(probe.templateBaseline[k]) =>
         Get(probe.res[1].body.patch, k) = toCleanString(probe.templateBaseline[k])

(***************************************************************************)
(* Properties of the rotation picks of a suspended request                 *)
(***************************************************************************)

\* The element of the pool at the index the rotation map stores for the
\* patient label.
StoredPick(memory, patientLabel, suffix, arr) ==
  arr[memory[rotationKey(patientLabel \o Str(suffix), arr)] + 1]

\* The prompt of call i of request r, built with the three rotation values
\* the request holds.
PromptWithPicksOf(r, i) ==
  LET rq == req[r]
      previous == normalizeNewlines(replies[r][i - 1])
  IN  CASE calls[r][i].stage = "draft" ->
             buildGeneratePrompt(rq.patientLabel, rq.userText, rq.introPrefix, rq.closerSentence,
                                 rq.pocOpener, rq.discipline)
        [] calls[r][i].stage = "repair" ->
             buildRepairPrompt(rq.patientLabel, rq.userText, previous, rq.introPrefix,
                               rq.closerSentence, rq.pocOpener, rq.discipline, <<>>)
        [] calls[r][i].stage = "repair2" ->
             buildRepairPrompt(rq.patientLabel, rq.userText, previous, rq.introPrefix,
                               rq.closerSentence, rq.pocOpener, rq.discipline,
                               contentChecks[r][1].result.reason \o
                               Str("\n  You MUST follow these topic-based content rules if applicable:\n  ") \o
                               buildPTVisitSummaryMuscleConstraints(rq.userText).constraintsText)

\* Every prompt and every run of the format validator of request r uses the
\* three rotation values the request holds.
UsesItsPicks(r) ==
  /\ \A i \in 1..Len(calls[r]) : calls[r][i].prompt = PromptWithPicksOf(r, i)
  /\ \A j \in 1..Len(fmtChecks[r]) :
       fmtChecks[r][j].result =
         validateGenerated(fmtChecks[r][j].text, req[r].introPrefix, req[r].closerSentence,
                           req[r].pocOpener, req[r].discipline)

\* The handler of request r runs from its start to the first await: the
\* three values it holds afterwards are the ones the rotation map points at.
ChosenAtStart(r) ==
  req[r].pc = "idle" /\ req'[r].pc = "draft" =>
    /\ req'[r].introPrefix = StoredPick(patientMemory', req'[r].patientLabel, "::intro", SUMMARY_INTRO_PREFIXES)
    /\ req'[r].closerSentence = StoredPick(patientMemory', req'[r].patientLabel, "::closePT", SUMMARY_CLOSERS)
    /\ req'[r].pocOpener = StoredPick(patientMemory', req'[r].patientLabel, "::pocPT", POC_OPENERS)
    /\ Len(calls[r]) = 0 /\ Len(calls'[r]) = 1

\* After its start the request keeps its three values, whatever happens to
\* the rotation map.
KeptAfterStart(r) ==
  req[r].pc # "idle" =>
    /\ req'[r].introPrefix = req[r].introPrefix
    /\ req'[r].closerSentence = req[r].closerSentence
    /\ req'[r].pocOpener = req[r].pocOpener

\* C32: the intro prefix, the closing sentence and the POC opener of a
\* request are chosen once, before its first oracle call, and the same three
\* values are used in its generation prompt, in every repair prompt and in
\* every run of the format validator, even when a concurrent request for
\* the same patient label advances the rotation map while the request is
\* suspended on an oracle call.
C32_PicksPinned ==
  /\ [][\A r \in DOMAIN req : ChosenAtStart(r) /\ KeptAfterStart(r)]_vars
  /\ [](\A r \in DOMAIN req : UsesItsPicks(r))

\* While request r1 waited for its draft, request r2 advanced the three
\* indices of the patient; r1 then went through a format repair and a
\* content repair and was answered.
C32_Witness ==
  /\ req["r1"].pc = "done" /\ Picked("r2")
  /\ Len(calls["r1"]) = 3 /\ Len(fmtChecks["r1"]) = 3
  /\ calls["r1"][2].stage = "repair" /\ calls["r1"][3].stage = "repair2"
  /\ req["r1"].closerSentence # StoredPick(patientMemory, req["r1"].patientLabel, "::closePT", SUMMARY_CLOSERS)
  /\ req["r1"].introPrefix # req["r2"].introPrefix

(***************************************************************************)
(* Properties of an empty answer of the oracle                             *)
(***************************************************************************)

\* Call i of request r, issued at the given stage, returned no text.
EmptyReply(r, i, stage) ==
  /\ i <= Len(replies[r])
  /\ calls[r][i].stage = stage
  /\ replies[r][i] = <<>>

\* Request r was answered with the note that had passed the format
\* validator before call i, with the same reason in both debug fields.
PublishedPreviousNote(r, i) ==
  /\ Len(res[r]) = 1
  /\ res[r][1].status = 200
  /\ fmtChecks[r][i - 1].result.ok
  /\ res[r][1].body.summary = fmtChecks[r][i - 1].text
  /\ "debug" \in DOMAIN res[r][1].body
  /\ res[r][1].body.debug.muscleRuleFail = res[r][1].body.debug.muscleRuleStillFail
  /\ res[r][1].body.debug.muscleRuleFail = contentChecks[r][1].result.reason

\* C33: an empty output of the format repair is validated as empty text and
\* always ends in 422; an empty output of the content repair falls back to
\* the previous format-valid note, which is published with 200 and debug
\* metadata whose muscleRuleFail and muscleRuleStillFail are the same
\* reason, and never produces 422.
C33_EmptyReplyAsymmetry ==
  \A r \in DOMAIN req : \A i \in 1..Len(replies[r]) :
    /\ EmptyReply(r, i, "repair") =>
         /\ fmtChecks[r][i].text = <<>> /\ ~fmtChecks[r][i].result.ok
         /\ Len(res[r]) = 1 /\ res[r][1].status = 422
         /\ res[r][1].body.raw = <<>>
    /\ EmptyReply(r, i, "repair2") => PublishedPreviousNote(r, i)

\* The content repair of a request, issued after a format repair, returned
\* no text, and the output of the format repair was published.
C33_Witness ==
  \E r \in DOMAIN req :
    /\ EmptyReply(r, 3, "repair2")
    /\ calls[r][2].stage = "repair"
    /\ res[r][1].status = 200
    /\ fmtChecks[r][3].text = fmtChecks[r][2].text

(***************************************************************************)
(* Properties of the closing phrase                                        *)
(***************************************************************************)

ClosingPhraseReason == Str("Summary must end with required closing phrase.")

\* C34: in the format validator as POST /generate uses it, the reason
\* "Summary must end with required closing phrase." is never returned: for
\* every closing sentence of the PT pool with discipline PT and every one of
\* the OT pool with discipline OT, a last sentence equal to the
\* rotation-selected closing sentence contains the discipline's "Continued
\* skilled PT/OT remains indicated".
C34_ClosingPhraseUnreachable ==
  probe.result # Null =>
    /\ ~probe.result.ok => probe.result.reason # ClosingPhraseReason
    /\ getLastSentence(SummaryOf(probe.input.text)) = probe.input.closerSentence =>
         includesExactClosingPhrase(probe.input.closerSentence, probe.input.discipline)

\* A note for OT that ends with the fourth closing sentence of the OT pool
\* has reached the rule and passed the validator.
C34_Witness ==
  /\ probe.result # Null
  /\ probe.input.discipline = "OT"
  /\ probe.input.closerSentence = OT_SUMMARY_CLOSERS[4]
  /\ getLastSentence(SummaryOf(probe.input.text)) = probe.input.closerSentence
  /\ probe.result.ok

(***************************************************************************)
(* Properties of the directives of the content repair                      *)
(***************************************************************************)

\* For each check of the validator, in the order of its checks, the place
\* of the directive of the same rule in the priority order.
DirectiveOfCheck == <<5, 1, 2, 6, 7, 4, 3, 8, 9>>

\* The check whose reason the validator reported.
ReportedCheck(result) ==
  {k \in 1..Len(ReasonWords) : includes(result.reason, ReasonWords[k])}

\* C35: whenever the content validator fails for a userText, the directive
\* list compiled for the content-repair prompt is not empty and holds the
\* directive of the rule whose reason was reported, for every combination
\* of topic flags.
C35_RepairNamesFailedRule ==
  probe.called /\ ~probe.result.ok =>
    /\ probe.constraints.constraintsText # <<>>
    /\ ReportedCheck(probe.result) # {}
    /\ \A k \in ReportedCheck(probe.result) :
         includes(probe.constraints.constraintsText, PriorityOrder[DirectiveOfCheck[k]])

\* The instruction mentions the knee, manual therapy, the low back and
\* TherAct, and the validator has reported the knee rule, whose check needs
\* two flags.
C35_Witness ==
  /\ probe.called /\ ~probe.result.ok
  /\ ReportedCheck(probe.result) = {4}
  /\ probe.constraints.topics.lbpTopic /\ probe.constraints.topics.mentionsTherAct
  /\ ~probe.constraints.topics.neckTopic

(***************************************************************************)
(* Properties of the rotation map over a sequence of requests              *)
(***************************************************************************)

\* The request that arrives at slot r in this step is rejected with 400.
RejectedNow(r) ==
  /\ started' = started + 1
  /\ req'[r].pc = "done"
  /\ Len(res'[r]) = 1 /\ res'[r][1].status = 400

\* The request that arrives at slot r in this step passes input validation.
AcceptedNow(r) ==
  /\ started' = started + 1
  /\ req'[r].pc = "draft"

\* The three values an accepted request holds are picks from the map as it
\* was before the request.
PickedFrom(memory, rq) ==
  \E intro \in pickIntroPrefix(memory, rq.patientLabel) :
    \E closer \in pickCloserForDiscipline(intro.memory, rq.patientLabel, rq.discipline) :
      \E opener \in pickPocOpenerForDiscipline(closer.memory, rq.patientLabel, rq.discipline) :
        /\ rq.introPrefix = intro.value
        /\ rq.closerSentence = closer.value
        /\ rq.pocOpener = opener.value

\* C36: a POST /generate request rejected with 400 leaves the rotation map
\* unchanged (no key is created, no index is advanced), so that the next
\* valid request for the same patient label receives the rotation elements
\* the map held for it before the rejected request.
C36_RejectionKeepsRotation ==
  [][\A r \in DOMAIN req :
       /\ RejectedNow(r) => patientMemory' = patientMemory
       /\ AcceptedNow(r) => PickedFrom(patientMemory, req'[r])]_vars

\* The second request, for patient A, waits for its draft; the map holds the
\* three keys of this request only, so the first request was rejected.
C36_Witness ==
  \E r \in DOMAIN req :
    /\ started = 2
    /\ req[r].pc = "draft"
    /\ req[r].patientLabel = Str("A")
    /\ Cardinality(DOMAIN patientMemory) = 3
    /\ \A key \in DOMAIN patientMemory : patientMemory[key] < RandBound

\* The three pools a request of the given discipline picks from, with the
\* suffix of their subject keys.
PoolsOfRequest(discipline) ==
  { <<"::intro", SUMMARY_INTRO_PREFIXES>>,
    <<IF discipline = "OT" THEN "::closeOT" ELSE "::closePT",
      IF discipline = "OT" THEN OT_SUMMARY_CLOSERS ELSE SUMMARY_CLOSERS>>,
    <<IF discipline = "OT" THEN "::pocOT" ELSE "::pocPT",
      IF discipline = "OT" THEN OT_POC_OPENERS ELSE POC_OPENERS>> }

\* The three keys of the rotation map of a request.
KeysOfRequest(rq) ==
  { rotationKey(rq.patientLabel \o Str(pool[1]), pool[2]) : pool \in PoolsOfRequest(rq.discipline) }

\* One pick on each of the three keys of the request and on no other key: a
\* stored index goes one step further, around the end of the pool, and a
\* key the map does not hold is created with an index of its pool.
OneStepOnEachKey(before, after, rq) ==
  /\ DOMAIN after = DOMAIN before \cup KeysOfRequest(rq)
  /\ \A key \in DOMAIN before \ KeysOfRequest(rq) : after[key] = before[key]
  /\ \A pool \in PoolsOfRequest(rq.discipline) :
       LET key == rotationKey(rq.patientLabel \o Str(pool[1]), pool[2])
       IN  IF key \in DOMAIN before
           THEN after[key] = (before[key] + 1) % Len(pool[2])
           ELSE after[key] \in 0..(Len(pool[2]) - 1)

\* C37: the rotation does not depend on the outcome of the request. A
\* request that passes input validation advances the intro key, the closer
\* key and the POC-opener key of its patient label and discipline by one
\* step each, in the step that ends with its first oracle call, and no later
\* step of a request, whether it ends in 200, 422 or 500, changes the map.
C37_RotationRegardlessOfOutcome ==
  [][\A r \in DOMAIN req :
       /\ AcceptedNow(r) =>
            /\ OneStepOnEachKey(patientMemory, patientMemory', req'[r])
            /\ Len(calls'[r]) = 1 /\ Len(replies'[r]) = 0
       /\ started' = started => patientMemory' = patientMemory]_vars

\* The second request of patient A was answered 500 after its format
\* repair had been called, and the map holds the index after the one the
\* first request stored.
C37_Witness ==
  \E r \in DOMAIN req :
    /\ started = 2
    /\ req[r].pc = "done" /\ res[r][1].status = 500
    /\ Len(calls[r]) = 2
    /\ req[r].patientLabel = Str("A")
    /\ patientMemory[rotationKey(Str("A::intro"), SUMMARY_INTRO_PREFIXES)] >= 1

(***************************************************************************)
(* Properties of the rotation selector over whole cycles                   *)
(***************************************************************************)

\* The elements of a pool.
ElementsOf(arr) == {arr[k] : k \in 1..Len(arr)}

\* The picks from place i on, as many as the pool has elements, returned
\* every element of the pool (hence each exactly once).
FullCycleAt(values, arr, i) ==
  {values[j] : j \in i..(i + Len(arr) - 1)} = ElementsOf(arr)

\* C38: for every key the stored index is within 0..len(pool)-1, and any
\* len(pool) consecutive picks for that key, in execution order and with
\* any picks for other keys between them, return every element of the pool
\* exactly once.
C38_FullCycle ==
  /\ DOMAIN probe.picks = DOMAIN patientMemory
  /\ \A key \in DOMAIN patientMemory :
       LET arr == probe.picks[key].arr
           values == probe.picks[key].values
       IN  /\ patientMemory[key] \in 0..(Len(arr) - 1)
           /\ Cardinality(ElementsOf(arr)) = Len(arr)
           /\ \A i \in 1..(Len(values) - Len(arr) + 1) : FullCycleAt(values, arr, i)

\* Six picks of the PT closing sentences and eight of the PT openers: the
\* closers went around their pool and one pick further.
C38_Witness ==
  \E closers, openers \in DOMAIN probe.picks :
    /\ probe.picks[closers].arr = SUMMARY_CLOSERS
    /\ Len(probe.picks[closers].values) = Len(SUMMARY_CLOSERS) + 1
    /\ probe.picks[openers].arr = POC_OPENERS
    /\ Len(probe.picks[openers].values) = Len(POC_OPENERS)
    /\ probe.picks[closers].values[1] = probe.picks[closers].values[Len(SUMMARY_CLOSERS) + 1]

(***************************************************************************)
(* One response per request                                                *)
(***************************************************************************)

ResponseStatuses == {400, 200, 422, 500}

\* The request of slot r has sent its response.
Responded(r) == Len(res[r]) > 0

\* At any time a request has sent no response while it waits for the
\* oracle, one response once its handler is over, and never more than one;
\* the status is one of the four.
OneResponse(r) ==
  /\ Len(res[r]) <= 1
  /\ \A i \in 1..Len(res[r]) : res[r][i].status \in ResponseStatuses
  /\ InFlight(r) => ~Responded(r)
  /\ req[r].pc = "done" => Responded(r)

\* A step of a request that has sent its response (no new request arrives
\* in the step) issues no oracle call and sends nothing.
QuietAfterResponse(r) ==
  Responded(r) /\ started' = started => calls'[r] = calls[r] /\ res'[r] = res[r]

\* C39: every POST /generate request sends exactly one response, with
\* status 400, 200, 422 or 500; a request that waits for an oracle call
\* sends it after finitely many steps when every oracle call returns or
\* fails; after the response the request issues no further oracle call.
C39_ExactlyOneResponse ==
  /\ [](\A r \in DOMAIN req : OneResponse(r))
  /\ [][\A r \in DOMAIN req : QuietAfterResponse(r)]_vars
  /\ \A r \in Requests : InFlight(r) ~> Responded(r)

\* The third request of the slot has been answered 422 after its three
\* oracle calls.
C39_Witness ==
  \E r \in DOMAIN req :
    /\ started = MaxArrivals
    /\ req[r].pc = "done"
    /\ StagesOf(r) = <<"draft", "repair", "repair2">>
    /\ Len(res[r]) = 1
    /\ res[r][1].status = 422

====
